---- MODULE Spec2Model ----
(***************************************************************************)
(* A model of react-native-sqlite-mcp: the connection cache and the query  *)
(* service of db.ts (both engines found in the sources: the sql.js one of  *)
(* src/src/db.ts and the sqlite3 one of src/unnamed/part_001), the        *)
(* discovery, selector matching and staging of locator.ts, and the tool    *)
(* handlers of index.ts.                                                   *)
(*                                                                         *)
(* Scheduling is Node's: one thread, macrotasks (incoming requests, timer  *)
(* callbacks, I/O completions, signals) run one at a time, the microtasks  *)
(* they leave behind run before the next macrotask, and the timers phase   *)
(* of a loop iteration runs before its poll phase, so a timer that is due  *)
(* fires before the next request or completion is handled.  Time is a      *)
(* millisecond clock that advances in steps of Step.                       *)
(***************************************************************************)
EXTENDS Integers, Sequences, FiniteSets, TLC

\* ------------------------------------------------------------- constants
CACHE_TTL_MS == 60000

QUERY_TIMEOUT_MS == 30000

\* ---------------------------------------------------------------- bounds
Step == 30000

MaxTime == 90000

MaxBlock == 2

MaxHandles == 3

MaxCalls == 3

MaxSyncs == 2

MaxWrites == 1

Platforms == {"ios", "android"}

\* the file `find` locates under the simulator's data root: the application's own file
IosPath == <<"sim", 0>>

\* path.join(fs.mkdtempSync(...), safeLocalName): a new directory for every staging
TmpPath(n) == <<"tmp", n>>

Paths == {IosPath} \cup {TmpPath(n) : n \in 1..MaxSyncs}

NoPath == <<"", 0>>

NoData == -1

Engines == {"sqljs", "sqlite3"}

Handles == 1..MaxHandles

Calls == 1..MaxCalls

NoHandle == 0

NoTime == -1

VARIABLES
  engine,          \* which db.ts is built: "sqljs" or "sqlite3"
  now,             \* the clock, ms
  SQL,             \* db.ts: the sql.js engine is initialised
  connectionCache, \* Map<string, CachedConnection> in insertion order
  timers,          \* pending setTimeout callbacks
  dbState,         \* per handle: "none", "open", "closing", "closed"
  dbPath,          \* per handle: the path it was opened on
  closeCalls,      \* per handle: how many times close() was called on it
  nextHandle,      \* the next handle to be opened
  pc,              \* per call: where queryDb stands
  callPath,        \* per call: its dbPath argument
  callDb,          \* per call: the handle getCachedDb returned
  callStart,       \* per call: when the statement in flight was dispatched
  execTime,        \* per call: how long the statement ran (NoTime: not finished)
  outcome,         \* per call: "none", "rows", "timeout"
  closePc,         \* shutdown: "idle", "draining", "done", "exited"
  closeQueue,      \* closeAllConnections: the paths still to evict
  closeWait,       \* closeAllConnections: the handle whose close it awaits
  deviceData,      \* per platform: the version of the application's database
  staged,          \* per staged file: the version it holds (NoData: no such file)
  nextTmp,         \* the next staging directory
  activeDatabases, \* index.ts: the active selection
  syncResult,      \* per call: what its syncDatabase returned
  callKind,        \* per call: "query" or "sync"
  callPlatform,    \* per call: its platform argument, "any" when absent
  buffer,          \* per handle: the file contents sql.js loaded when it opened
  rows,            \* per call: the version of the contents its result shows
  hist,            \* history: what the claims need to remember
  devPlatform,     \* locator.ts: the platform of the booted target
  deviceFiles,     \* the files of the app's storage root, in `find` order
  dbNameGlob,      \* syncDatabase: the selector, <<>> when absent
  locDatabases,    \* DatabaseLocation.databases
  targetDbNames,   \* syncDatabase: the selected names
  selPc,           \* syncDatabase: "start", "listed", "selected"
  targetPlatform,  \* syncDatabase: the platform asked for, "any" when absent
  bundleId,        \* syncDatabase: the package asked for, "none" when absent
  androidFiles,    \* the files of each package of the emulator, in `find` order
  work,            \* syncDatabase: the (location, name) pairs still to stage
  synced,          \* syncDatabase: the result list
  hostFiles,       \* the local files the stagings have located or written
  stageTmp,        \* the staging directories fs.mkdtempSync has made
  syncPc,          \* syncDatabase: "idle", "start", "staging", "returned", "threw"
  stageLog,        \* history: the staging attempts, in order
  READ_ONLY,       \* index.ts: the read-only mode flag
  reqPlatform,     \* a request's args.platform as sent, <<>> when absent
  reqDbName,       \* a request's args.dbName, "" when absent
  reqSql,          \* a query_db request's args.sql, <<>> when absent
  reqDb,           \* what ensureDbState returned to the request
  reqPc,           \* the request: "idle", "start", "ensured", or how it ended
  dPc,             \* listDatabases: where it is, "returned" or "threw" at its end
  dResults,        \* listDatabases: results
  dError,          \* listDatabases: the error it threw, "none" otherwise
  scanQueue,       \* listDatabases: the (package, root) pairs the loops have yet to try
  allAndroidDatabases,   \* listDatabases: the names collected over all packages
  lastSuccessfulAppDir,  \* listDatabases: the root and package that last added names
  rootFiles,       \* the files of each package of the emulator under each root
  probeLog,        \* history: the roots probed, in order
  envLog,          \* history: what the device probes answered
  shRetries,       \* shell: options.retries
  shRetryDelay,    \* shell: options.retryDelay
  shIgnoreErrors,  \* shell: options.ignoreErrors
  shAttempt,       \* shell: the loop variable attempt
  shPc,            \* shell: "idle", "loop", "exec", "returned", "threw"
  shSlept,         \* history: the delays slept, in order
  shRuns,          \* history: how each execution of the command ended, in order
  shOutput,        \* shell: the value returned
  shCommand,       \* shell: command
  shLabel,         \* shell: options.label
  shError,         \* shell: the error thrown
  toolName,        \* CallTool handler: request.params.name
  tableName,       \* CallTool handler: args.tableName
  callee,          \* history: the functions the handler awaited and how each ended
  responses,       \* history: the responses the handler has returned
  handlerPc,       \* CallTool handler: "idle", "start", "returned", "threw"
  procPc,          \* the process: "starting", "running", "failed"
  faultLog         \* history: the process-level faults logged

vars == <<engine, now, SQL, connectionCache, timers, dbState, dbPath, closeCalls,
          nextHandle, pc, callPath, callDb, callStart, execTime, outcome,
          closePc, closeQueue, closeWait, deviceData, staged, nextTmp,
          activeDatabases, syncResult, callKind, callPlatform, buffer, rows, hist,
          devPlatform, deviceFiles, dbNameGlob, locDatabases, targetDbNames, selPc,
          targetPlatform, bundleId, androidFiles, work, synced, hostFiles, stageTmp,
          syncPc, stageLog, READ_ONLY, reqPlatform, reqDbName, reqSql, reqDb, reqPc,
          dPc, dResults, dError, scanQueue, allAndroidDatabases, lastSuccessfulAppDir,
          rootFiles, probeLog, envLog,
          shRetries, shRetryDelay, shIgnoreErrors, shAttempt, shPc, shSlept, shRuns,
          shOutput, shCommand, shLabel, shError, toolName, tableName, callee, responses, handlerPc, procPc, faultLog>>

cacheVars == <<connectionCache, timers, dbState, dbPath, closeCalls, nextHandle, buffer>>

callVars == <<pc, callPath, callDb, callStart, execTime, outcome, rows,
              callKind, callPlatform, syncResult>>

syncVars == <<deviceData, staged, nextTmp, activeDatabases>>

locVars == <<devPlatform, deviceFiles, dbNameGlob, locDatabases, targetDbNames, selPc>>

stageVars == <<targetPlatform, bundleId, androidFiles, work, synced, hostFiles, stageTmp,
               syncPc, stageLog>>

closeVars == <<closePc, closeQueue, closeWait>>

reqVars == <<READ_ONLY, reqPlatform, reqDbName, reqSql, reqDb, reqPc>>

discVars == <<dPc, dResults, dError, scanQueue, allAndroidDatabases, lastSuccessfulAppDir,
              rootFiles, probeLog, envLog>>

shellVars == <<shRetries, shRetryDelay, shIgnoreErrors, shAttempt, shPc, shSlept, shRuns,
               shOutput, shCommand, shLabel, shError>>

handlerVars == <<toolName, tableName, callee, responses, handlerPc>>

procVars == <<procPc, faultLog>>

serverVars == <<engine, now, SQL, cacheVars, callVars, closeVars, syncVars, hist, reqVars>>

\* ------------------------------------------------------------ the cache
RECURSIVE IndexOf(_, _, _)
IndexOf(cache, p, i) ==
  IF i > Len(cache) THEN 0
  ELSE IF cache[i].dbPath = p THEN i ELSE IndexOf(cache, p, i + 1)

\* connectionCache.get(dbPath) /= undefined
CacheHas(cache, p) == IndexOf(cache, p, 1) /= 0

\* connectionCache.get(dbPath)
CacheGet(cache, p) == cache[IndexOf(cache, p, 1)]

\* connectionCache.set(dbPath, entry): an existing key keeps its position
CacheSet(cache, p, entry) ==
  IF CacheHas(cache, p)
  THEN [cache EXCEPT ![IndexOf(cache, p, 1)] = entry]
  ELSE Append(cache, entry)

CacheDeleteSkipped(cache, p) == cache

\* connectionCache.delete(dbPath)
CacheDelete(cache, p) ==
  LET i == IndexOf(cache, p, 1)
  IN  IF i = 0 THEN cache
      ELSE SubSeq(cache, 1, i - 1) \o SubSeq(cache, i + 1, Len(cache))

\* [...connectionCache.keys()]
CacheKeys(cache) == [i \in 1..Len(cache) |-> cache[i].dbPath]

\* setTimeout(() => evictConnection(dbPath), CACHE_TTL_MS); the timer is named
\* after the handle of the entry that stores it
EvictTimer(h, p, t) == [kind |-> "evict", id |-> h, dbPath |-> p, due |-> t + CACHE_TTL_MS]

\* setTimeout(() => reject(...), ms) of withTimeout; named after the call
QueryTimer(c, t) == [kind |-> "query", id |-> c, dbPath |-> NoPath, due |-> t + QUERY_TIMEOUT_MS]

\* clearTimeout(timer)
ClearTimeout(ts, kind, id) == {t \in ts : ~(t.kind = kind /\ t.id = id)}

TimerDue == \E t \in timers : t.due <= now

\* a continuation that runs as a microtask, before any macrotask
Microtask ==
  \E c \in Calls : pc[c] \in {"awaitSync", "awaitLazy", "ensured", "awaitSql", "gotDb"}

Running == closePc \in {"idle", "draining"} /\ procPc = "running"

\* a macrotask of the poll phase may run
MacroReady == Running /\ ~Microtask /\ ~TimerDue

\* ---------------------------------------------------------- evictConnection
\* The part of the state evictConnection works on.
DbState == [cache |-> connectionCache, dbState |-> dbState,
            closeCalls |-> closeCalls, evictions |-> hist.evictions]

\* entry.db.close(): sql.js closes at once, sqlite3 closes in the background
CloseDb(st) ==
  IF st = "closed" THEN "closed"
  ELSE IF engine = "sqljs" THEN "closed" ELSE "closing"

\* evictConnection(dbPath): no entry, no effect; else delete the entry, then close
evictConnection(S, p) ==
  IF ~CacheHas(S.cache, p) THEN S
  ELSE LET e == CacheGet(S.cache, p)
       IN  [cache      |-> CacheDelete(S.cache, p),
            dbState    |-> [S.dbState EXCEPT ![e.db] = CloseDb(@)],
            closeCalls |-> [S.closeCalls EXCEPT ![e.db] = @ + 1],
            evictions  |-> [S.evictions EXCEPT ![p] = @ + 1]]

\* for (const p of paths) evictConnection(p), every close being synchronous
RECURSIVE EvictAll(_, _)
EvictAll(S, paths) ==
  IF paths = <<>> THEN S
  ELSE EvictAll(evictConnection(S, Head(paths)), Tail(paths))

\* the paths of the snapshot whose evictConnection returns without a close to await
RECURSIVE SkipMissing(_, _)
SkipMissing(paths, cache) ==
  IF paths = <<>> THEN <<>>
  ELSE IF CacheHas(cache, Head(paths)) THEN paths
  ELSE SkipMissing(Tail(paths), cache)

\* ------------------------------------------------------------ the selection
DbName == "app.db"

OtherDbName == "b.db"

NoDb == [localPath |-> NoPath, dbName |-> "", platform |-> "none"]

\* `${baseDir}::${pkg}`, baseDir being the storage root of package dir; the
\* simulator's appDataDir is the root "sim"
AppDir(dir, pkg) == [dir |-> dir, pkg |-> pkg]

NoAppDir == AppDir("none", "none")

\* no probe has been made
NoEnvLog == [ios |-> "none", adb |-> "none", pm |-> "none"]

\* shell has thrown nothing
NoShellError == [thrown |-> FALSE, tag |-> <<>>]

\* the contents of the file at a local path: the simulator's file is the
\* application's own, a staged file holds what was pulled into it
FileData(p) == IF p = IosPath THEN deviceData["ios"] ELSE staged[p]

\* syncDatabase(dbNameGlob, bundleId, targetPlatform) with one booted target per
\* platform, each holding one database: the iOS result is the located file itself,
\* the Android result a copy pulled into a new staging directory
syncDatabase(pl) ==
  LET ios == IF pl \in {"any", "ios"}
             THEN <<[localPath |-> IosPath, dbName |-> DbName, platform |-> "ios"]>>
             ELSE <<>>
      adr == IF pl \in {"any", "android"}
             THEN <<[localPath |-> TmpPath(nextTmp), dbName |-> DbName,
                     platform |-> "android"]>>
             ELSE <<>>
  IN  [synced  |-> ios \o adr,
       staged  |-> IF adr = <<>> THEN staged
                   ELSE [staged EXCEPT ![TmpPath(nextTmp)] = deviceData["android"]],
       nextTmp |-> IF adr = <<>> THEN nextTmp ELSE nextTmp + 1,
       seen    |-> [q \in Paths |->
                     IF ios /= <<>> /\ q = IosPath THEN deviceData["ios"]
                     ELSE IF adr /= <<>> /\ q = TmpPath(nextTmp) THEN deviceData["android"]
                     ELSE NoData]]

\* the versions captured by the syncs that have completed, after one more has
Completed(seen) ==
  [q \in Paths |-> IF seen[q] /= NoData THEN seen[q] ELSE hist.synced[q]]

\* a staging directory is left for the Android part of a sync
CanSync(pl) == pl = "ios" \/ nextTmp <= MaxSyncs

\* ensureDbState: the entries of the selection that match the request
Candidates(active, pl) ==
  SelectSeq(active, LAMBDA d : pl = "any" \/ d.platform = pl)

\* ensureDbState after the selection is known: exactly one candidate, or an error
Ensured(c, active) ==
  LET cands == Candidates(active, callPlatform'[c])
  IN  IF Len(cands) = 1
      THEN /\ callPath' = [callPath EXCEPT ![c] = cands[1].localPath]
           /\ pc' = [pc EXCEPT ![c] = "ensured"]
           /\ outcome' = outcome
      ELSE /\ callPath' = callPath
           /\ pc' = [pc EXCEPT ![c] = "done"]
           /\ outcome' = [outcome EXCEPT ![c] = IF Len(cands) = 0 THEN "nomatch"
                                                 ELSE "ambiguous"]

\* a request may be taken up: by the poll phase, or in the same batch as another
CanStart == Running /\ (Microtask \/ ~TimerDue)

\* requests are numbered in the order they arrive
NextCall(c) == pc[c] = "idle" /\ \A b \in Calls : b < c => pc[b] /= "idle"

\* the CallTool handler of index.ts up to its first await: sync_database runs
\* syncDatabase; query_db runs ensureDbState, which syncs when nothing is active
ToolCall(c, kind, pl) ==
  /\ NextCall(c)
  /\ CanStart
  /\ callKind' = [callKind EXCEPT ![c] = kind]
  /\ callPlatform' = [callPlatform EXCEPT ![c] = pl]
  /\ IF kind = "sync" \/ activeDatabases = <<>>
     THEN LET r == syncDatabase(pl)
          IN  /\ CanSync(pl)
              /\ syncResult' = [syncResult EXCEPT ![c] = r.synced]
              /\ staged' = r.staged
              /\ nextTmp' = r.nextTmp
              /\ hist' = [hist EXCEPT !.seen[c] = r.seen, !.known[c] = hist.synced]
              /\ pc' = [pc EXCEPT ![c] = IF kind = "sync" THEN "awaitSync" ELSE "awaitLazy"]
              /\ UNCHANGED <<callPath, outcome>>
     ELSE /\ Ensured(c, activeDatabases)
          /\ hist' = [hist EXCEPT !.known[c] = hist.synced]
          /\ UNCHANGED <<syncResult, staged, nextTmp>>
  /\ UNCHANGED <<locVars, stageVars, reqVars, discVars, shellVars, handlerVars, procVars,
                 engine, now, SQL, cacheVars, callDb, callStart, execTime, rows,
                 closeVars, deviceData, activeDatabases>>

\* the handler when syncDatabase throws (no device, nothing found, nothing
\* staged): the rejection skips the assignment and the catch of the handler
\* answers with the error
ToolCallFails(c, kind, pl) ==
  /\ NextCall(c)
  /\ CanStart
  /\ kind = "sync" \/ activeDatabases = <<>>
  /\ callKind' = [callKind EXCEPT ![c] = kind]
  /\ callPlatform' = [callPlatform EXCEPT ![c] = pl]
  /\ pc' = [pc EXCEPT ![c] = "done"]
  /\ outcome' = [outcome EXCEPT ![c] = "error"]
  /\ UNCHANGED <<locVars, stageVars, reqVars, discVars, shellVars, handlerVars, procVars,
                 engine, now, SQL, cacheVars, callPath, callDb,
                 callStart, execTime, rows, syncResult, closeVars, syncVars, hist>>

AppendSelection(active, results) == active \o results

\* activeDatabases = results: the selection is replaced by the result of the sync
ReplaceSelection(active, results) == results

\* sync_database after `await syncDatabase(...)`: activeDatabases = results
AssignSync(c) ==
  /\ pc[c] = "awaitSync"
  /\ Running
  /\ activeDatabases' = ReplaceSelection(activeDatabases, syncResult[c])
  /\ pc' = [pc EXCEPT ![c] = "done"]
  /\ outcome' = [outcome EXCEPT ![c] = "synced"]
  /\ hist' = [hist EXCEPT !.synced = Completed(hist.seen[c])]
  /\ UNCHANGED <<locVars, stageVars, reqVars, discVars, shellVars, handlerVars, procVars,
                 engine, now, SQL, cacheVars, callPath, callDb, callStart, execTime,
                 rows, callKind, callPlatform, syncResult, closeVars, deviceData,
                 staged, nextTmp>>

\* ensureDbState after `activeDatabases = await syncDatabase(...)`
AssignLazy(c) ==
  /\ pc[c] = "awaitLazy"
  /\ Running
  /\ activeDatabases' = ReplaceSelection(activeDatabases, syncResult[c])
  /\ callPlatform' = callPlatform
  /\ Ensured(c, syncResult[c])
  /\ hist' = [hist EXCEPT !.synced = Completed(hist.seen[c])]
  /\ UNCHANGED <<locVars, stageVars, reqVars, discVars, shellVars, handlerVars, procVars,
                 engine, now, SQL, cacheVars, callDb, callStart, execTime,
                 rows, callKind, syncResult, closeVars, deviceData,
                 staged, nextTmp>>

\* the application writes to its database
AppWrite(pl) ==
  /\ MacroReady
  /\ deviceData["ios"] + deviceData["android"] < MaxWrites
  /\ deviceData' = [deviceData EXCEPT ![pl] = @ + 1]
  /\ UNCHANGED <<locVars, stageVars, reqVars, discVars, shellVars, handlerVars, procVars,
                 engine, now, SQL, cacheVars, callVars, closeVars, staged, nextTmp,
                 activeDatabases, hist>>

\* --------------------------------------------------------------- getCachedDb
\* the hit branch: clearTimeout, lastUsed = Date.now(), a new timer
HitEntry(e) == [e EXCEPT !.lastUsed = now, !.timer = e.db]

HitTimers(ts, e) ==
  ClearTimeout(ts, "evict", e.timer) \cup {EvictTimer(e.db, e.dbPath, now)}

\* the miss branch: new Database, setTimeout, connectionCache.set
NewEntry(h, p) == [db |-> h, dbPath |-> p, lastUsed |-> now, timer |-> h]

\* what a getCachedDb call leaves in the history when it starts
HistStart(c, p) ==
  [hist EXCEPT !.eStart[c] = hist.evictions[p],
               !.hStart[c] = nextHandle,
               !.idle[c] = (hist.lastAcq[p] /= NoTime /\ now - hist.lastAcq[p] > CACHE_TTL_MS),
               !.lastAcq[p] = now]

\* what it leaves when it returns handle h, whose state is st
HistReturn(H, c, p, st) ==
  [H EXCEPT !.eRet[c] = H.evictions[p], !.stateAtReturn[c] = st, !.lastAcq[p] = now]

\* the calls of the sql.js engine that are suspended in getCachedDb
Opening == {c \in Calls : pc[c] \in {"awaitInit", "awaitSql"}}

\* queryDb(dbPath, ...) of src/src/db.ts up to the first suspension of getCachedDb
StartSqlJs(c) ==
  /\ engine = "sqljs"
  /\ pc[c] = "ensured"
  /\ Running
  /\ LET p == callPath[c]
     IN  IF CacheHas(connectionCache, p)
         THEN LET e == CacheGet(connectionCache, p)
              IN  /\ connectionCache' = CacheSet(connectionCache, p, HitEntry(e))
                  /\ timers' = HitTimers(timers, e)
                  /\ callDb' = [callDb EXCEPT ![c] = e.db]
                  /\ pc' = [pc EXCEPT ![c] = "gotDb"]
                  /\ hist' = HistReturn(HistStart(c, p), c, p, dbState[e.db])
         ELSE /\ nextHandle + Cardinality(Opening) <= MaxHandles
              /\ pc' = [pc EXCEPT ![c] = IF SQL THEN "awaitSql" ELSE "awaitInit"]
              /\ hist' = HistStart(c, p)
              /\ UNCHANGED <<connectionCache, timers, callDb>>
  /\ UNCHANGED <<locVars, stageVars, reqVars, discVars, shellVars, handlerVars, procVars,
                 engine, now, SQL, dbState, dbPath, closeCalls, nextHandle, buffer,
                 callPath, callStart, execTime, outcome, rows, callKind, callPlatform,
                 syncResult, closeVars, syncVars>>

\* getCachedDb of src/src/db.ts after `await getSqlJs()`: read the file, open, cache
ResumeOpen(c) ==
  /\ engine = "sqljs"
  /\ \/ pc[c] = "awaitSql" /\ Running
     \/ pc[c] = "awaitInit" /\ MacroReady
  /\ nextHandle <= MaxHandles
  /\ LET h == nextHandle
         p == callPath[c]
     IN  /\ SQL' = TRUE
         /\ dbState' = [dbState EXCEPT ![h] = "open"]
         /\ dbPath' = [dbPath EXCEPT ![h] = p]
         /\ buffer' = [buffer EXCEPT ![h] = FileData(p)]
         /\ nextHandle' = h + 1
         /\ timers' = timers \cup {EvictTimer(h, p, now)}
         /\ connectionCache' = CacheSet(connectionCache, p, NewEntry(h, p))
         /\ callDb' = [callDb EXCEPT ![c] = h]
         /\ pc' = [pc EXCEPT ![c] = "gotDb"]
         /\ hist' = HistReturn(hist, c, p, "open")
  /\ UNCHANGED <<locVars, stageVars, reqVars, discVars, shellVars, handlerVars, procVars,
                 engine, now, closeCalls, callPath, callStart, execTime, outcome, rows,
                 callKind, callPlatform, syncResult, closeVars, syncVars>>

\* withTimeout(Promise.resolve(runQuery(...))) of src/src/db.ts: the promise handed
\* to withTimeout is already resolved, so its timer is set and then cleared by the
\* microtask of `.then` before the timers phase can run
SyncOutcome(d) == "rows"

\* queryDb of src/src/db.ts after `await getCachedDb`: runQuery blocks the thread
\* for d ms reading the loaded buffer, then withTimeout settles
RunQuery(c, d) ==
  /\ engine = "sqljs"
  /\ pc[c] = "gotDb"
  /\ now + d <= MaxTime
  /\ now' = now + d
  /\ execTime' = [execTime EXCEPT ![c] = d]
  /\ outcome' = [outcome EXCEPT ![c] = SyncOutcome(d)]
  /\ rows' = [rows EXCEPT ![c] = buffer[callDb[c]]]
  /\ pc' = [pc EXCEPT ![c] = "done"]
  /\ UNCHANGED <<locVars, stageVars, reqVars, discVars, shellVars, handlerVars, procVars,
                 engine, SQL, cacheVars, callPath, callDb, callStart, callKind,
                 callPlatform, syncResult, closeVars, syncVars, hist>>

\* queryDb of part_001: getCachedDb is synchronous, then db.all is dispatched and
\* withTimeout arms its timer
StartSqlite3(c) ==
  /\ engine = "sqlite3"
  /\ pc[c] = "ensured"
  /\ Running
  /\ LET p == callPath[c]
     IN  IF CacheHas(connectionCache, p)
         THEN LET e == CacheGet(connectionCache, p)
              IN  /\ connectionCache' = CacheSet(connectionCache, p, HitEntry(e))
                  /\ timers' = HitTimers(timers, e) \cup {QueryTimer(c, now)}
                  /\ callDb' = [callDb EXCEPT ![c] = e.db]
                  /\ hist' = HistReturn(HistStart(c, p), c, p, dbState[e.db])
                  /\ UNCHANGED <<dbState, dbPath, nextHandle>>
         ELSE LET h == nextHandle
              IN  /\ h <= MaxHandles
                  /\ dbState' = [dbState EXCEPT ![h] = "open"]
                  /\ dbPath' = [dbPath EXCEPT ![h] = p]
                  /\ nextHandle' = h + 1
                  /\ timers' = timers \cup {EvictTimer(h, p, now), QueryTimer(c, now)}
                  /\ connectionCache' = CacheSet(connectionCache, p, NewEntry(h, p))
                  /\ callDb' = [callDb EXCEPT ![c] = h]
                  /\ hist' = HistReturn(HistStart(c, p), c, p, "open")
  /\ callStart' = [callStart EXCEPT ![c] = now]
  /\ pc' = [pc EXCEPT ![c] = "running"]
  /\ UNCHANGED <<locVars, stageVars, reqVars, discVars, shellVars, handlerVars, procVars,
                 engine, now, SQL, closeCalls, buffer, callPath, execTime, outcome, rows,
                 callKind, callPlatform, syncResult, closeVars, syncVars>>

\* the callback of db.all: the statement has finished reading the file; `.then` of
\* withTimeout clears the timer and resolves, unless the timeout has already rejected
QueryComplete(c) ==
  /\ engine = "sqlite3"
  /\ pc[c] \in {"running", "abandoned"}
  /\ MacroReady
  /\ execTime' = [execTime EXCEPT ![c] = now - callStart[c]]
  /\ callStart' = [callStart EXCEPT ![c] = NoTime]
  /\ timers' = ClearTimeout(timers, "query", c)
  /\ outcome' = [outcome EXCEPT ![c] = IF pc[c] = "running" THEN "rows" ELSE @]
  /\ rows' = [rows EXCEPT ![c] = IF pc[c] = "running" THEN FileData(callPath[c]) ELSE @]
  /\ pc' = [pc EXCEPT ![c] = "done"]
  /\ UNCHANGED <<locVars, stageVars, reqVars, discVars, shellVars, handlerVars, procVars,
                 engine, now, SQL, connectionCache, dbState, dbPath, closeCalls,
                 nextHandle, buffer, callPath, callDb, callKind, callPlatform,
                 syncResult, closeVars, syncVars, hist>>

\* the timer of withTimeout fires: reject; the statement keeps running
QueryTimeout(c) ==
  /\ pc[c] = "running"
  /\ Running /\ ~Microtask
  /\ \E t \in timers : t.kind = "query" /\ t.id = c /\ t.due <= now
  /\ timers' = ClearTimeout(timers, "query", c)
  /\ outcome' = [outcome EXCEPT ![c] = "timeout"]
  /\ pc' = [pc EXCEPT ![c] = "abandoned"]
  /\ UNCHANGED <<locVars, stageVars, reqVars, discVars, shellVars, handlerVars, procVars,
                 engine, now, SQL, connectionCache, dbState, dbPath, closeCalls,
                 nextHandle, buffer, callPath, callDb, callStart, execTime, rows,
                 callKind, callPlatform, syncResult, closeVars, syncVars, hist>>

\* the idle timer of a cache entry fires: evictConnection(dbPath)
EvictFire(t) ==
  /\ t \in timers /\ t.kind = "evict" /\ t.due <= now
  /\ Running /\ ~Microtask
  /\ timers' = timers \ {t}
  /\ LET S == evictConnection(DbState, t.dbPath)
     IN  /\ connectionCache' = S.cache
         /\ dbState' = S.dbState
         /\ closeCalls' = S.closeCalls
         /\ hist' = [hist EXCEPT !.evictions = S.evictions]
  /\ UNCHANGED <<locVars, stageVars, reqVars, discVars, shellVars, handlerVars, procVars,
                 engine, now, SQL, dbPath, nextHandle, buffer, callVars, closeVars,
                 syncVars>>

\* the callback of sqlite3's close: the handle is closed; a closeAllConnections
\* that awaits it goes on with the next path of its snapshot
CloseComplete(h) ==
  /\ engine = "sqlite3"
  /\ dbState[h] = "closing"
  /\ MacroReady
  /\ IF closeWait /= h
     THEN /\ dbState' = [dbState EXCEPT ![h] = "closed"]
          /\ UNCHANGED <<connectionCache, closeCalls, closeVars, hist>>
     ELSE LET q == SkipMissing(closeQueue, connectionCache)
              S0 == [DbState EXCEPT !.dbState[h] = "closed"]
          IN  IF q = <<>>
              THEN /\ dbState' = S0.dbState
                   /\ closePc' = "done"
                   /\ closeQueue' = <<>>
                   /\ closeWait' = NoHandle
                   /\ UNCHANGED <<connectionCache, closeCalls, hist>>
              ELSE LET S == evictConnection(S0, Head(q))
                   IN  /\ connectionCache' = S.cache
                       /\ dbState' = S.dbState
                       /\ closeCalls' = S.closeCalls
                       /\ hist' = [hist EXCEPT !.evictions = S.evictions]
                       /\ closeQueue' = Tail(q)
                       /\ closeWait' = CacheGet(connectionCache, Head(q)).db
                       /\ UNCHANGED closePc
  /\ UNCHANGED <<locVars, stageVars, reqVars, discVars, shellVars, handlerVars, procVars,
                 engine, now, SQL, timers, dbPath, nextHandle, buffer, callVars,
                 syncVars>>

\* shutdown(signal) of index.ts: await closeAllConnections(), then process.exit(0).
\* With sql.js every close is synchronous and the drain is one step; with sqlite3
\* the first evictConnection runs up to its await.
Shutdown ==
  /\ closePc = "idle"
  /\ MacroReady
  /\ LET paths == CacheKeys(connectionCache)
     IN  IF engine = "sqljs" \/ paths = <<>>
         THEN LET S == EvictAll(DbState, paths)
              IN  /\ connectionCache' = S.cache
                  /\ dbState' = S.dbState
                  /\ closeCalls' = S.closeCalls
                  /\ hist' = [hist EXCEPT !.evictions = S.evictions,
                                          !.hShutdown = nextHandle]
                  /\ closePc' = "done"
                  /\ UNCHANGED <<closeQueue, closeWait>>
         ELSE LET S == evictConnection(DbState, Head(paths))
              IN  /\ connectionCache' = S.cache
                  /\ dbState' = S.dbState
                  /\ closeCalls' = S.closeCalls
                  /\ hist' = [hist EXCEPT !.evictions = S.evictions,
                                          !.hShutdown = nextHandle]
                  /\ closePc' = "draining"
                  /\ closeQueue' = Tail(paths)
                  /\ closeWait' = CacheGet(connectionCache, Head(paths)).db
  /\ UNCHANGED <<locVars, stageVars, reqVars, discVars, shellVars, handlerVars, procVars,
                 engine, now, SQL, timers, dbPath, nextHandle, buffer, callVars,
                 syncVars>>

\* process.exit(0) after closeAllConnections has resolved
Exit ==
  /\ closePc = "done"
  /\ closePc' = "exited"
  /\ UNCHANGED <<locVars, stageVars, reqVars, discVars, shellVars, handlerVars, procVars,
                 engine, now, SQL, cacheVars, callVars, closeQueue, closeWait,
                 syncVars, hist>>

\* the clock advances while the event loop waits
Tick ==
  /\ MacroReady
  /\ now + Step <= MaxTime
  /\ now' = now + Step
  /\ UNCHANGED <<locVars, stageVars, reqVars, discVars, shellVars, handlerVars, procVars,
                 engine, SQL, cacheVars, callVars, closeVars, syncVars, hist>>

\* ------------------------------------------------------------ specification
\* the server has started and nothing has been synced
InitServer ==
  /\ engine \in Engines
  /\ now = 0
  /\ SQL = FALSE
  /\ connectionCache = <<>>
  /\ timers = {}
  /\ dbState = [h \in Handles |-> "none"]
  /\ dbPath = [h \in Handles |-> NoPath]
  /\ closeCalls = [h \in Handles |-> 0]
  /\ buffer = [h \in Handles |-> NoData]
  /\ nextHandle = 1
  /\ pc = [c \in Calls |-> "idle"]
  /\ callPath = [c \in Calls |-> NoPath]
  /\ callDb = [c \in Calls |-> NoHandle]
  /\ callStart = [c \in Calls |-> NoTime]
  /\ execTime = [c \in Calls |-> NoTime]
  /\ outcome = [c \in Calls |-> "none"]
  /\ rows = [c \in Calls |-> NoData]
  /\ callKind = [c \in Calls |-> "none"]
  /\ callPlatform = [c \in Calls |-> "none"]
  /\ syncResult = [c \in Calls |-> <<>>]
  /\ closePc = "idle"
  /\ closeQueue = <<>>
  /\ closeWait = NoHandle
  /\ deviceData = [pl \in Platforms |-> 0]

\* no selection in progress
InitLocator ==
  /\ devPlatform = "ios"
  /\ deviceFiles = <<>>
  /\ dbNameGlob = <<>>
  /\ locDatabases = <<>>
  /\ targetDbNames = <<>>
  /\ selPc = "idle"

\* no request of the query handler in progress
InitReq ==
  /\ READ_ONLY = FALSE
  /\ reqPlatform = <<>>
  /\ reqDbName = ""
  /\ reqSql = <<>>
  /\ reqDb = NoDb
  /\ reqPc = "idle"

\* no discovery in progress
InitDisc ==
  /\ dPc = "idle"
  /\ dResults = <<>>
  /\ dError = "none"
  /\ scanQueue = <<>>
  /\ allAndroidDatabases = <<>>
  /\ lastSuccessfulAppDir = NoAppDir
  /\ rootFiles = <<>>
  /\ probeLog = <<>>
  /\ envLog = NoEnvLog

\* no command being run
InitShell ==
  /\ shRetries = 0
  /\ shRetryDelay = 0
  /\ shIgnoreErrors = FALSE
  /\ shAttempt = 0
  /\ shPc = "idle"
  /\ shSlept = <<>>
  /\ shRuns = <<>>
  /\ shOutput = <<>>
  /\ shCommand = <<>>
  /\ shLabel = <<>>
  /\ shError = NoShellError

\* no request at the handler boundary
InitHandler ==
  /\ toolName = "none"
  /\ tableName = ""
  /\ callee = <<>>
  /\ responses = <<>>
  /\ handlerPc = "idle"

\* the server is connected and serving
InitProc ==
  /\ procPc = "running"
  /\ faultLog = <<>>

\* no sync in progress
InitStage ==
  /\ targetPlatform = "any"
  /\ bundleId = "none"
  /\ androidFiles = <<>>
  /\ work = <<>>
  /\ synced = <<>>
  /\ hostFiles = {}
  /\ stageTmp = 0
  /\ syncPc = "idle"
  /\ stageLog = <<>>

HistInit(seen) ==
  [evictions |-> [p \in Paths |-> 0],
   lastAcq |-> [p \in Paths |-> NoTime],
   synced |-> seen,
   seen |-> [c \in Calls |-> [p \in Paths |-> NoData]],
   eStart |-> [c \in Calls |-> 0],
   eRet |-> [c \in Calls |-> 0],
   hStart |-> [c \in Calls |-> 0],
   idle |-> [c \in Calls |-> FALSE],
   known |-> [c \in Calls |-> [p \in Paths |-> NoData]],
   stateAtReturn |-> [c \in Calls |-> "none"],
   hShutdown |-> 0]

\* the connection cache and the query service, serving the selection that a
\* sync_database of both platforms has left
Init ==
  /\ InitServer
  /\ InitLocator
  /\ InitStage
  /\ InitReq
  /\ InitDisc
  /\ InitShell
  /\ InitHandler
  /\ InitProc
  /\ staged = [p \in Paths \ {IosPath} |-> IF p = TmpPath(1) THEN 0 ELSE NoData]
  /\ nextTmp = 2
  /\ activeDatabases =
       <<[localPath |-> IosPath, dbName |-> DbName, platform |-> "ios"],
         [localPath |-> TmpPath(1), dbName |-> DbName, platform |-> "android"]>>
  /\ hist = HistInit([p \in Paths |-> IF p \in {IosPath, TmpPath(1)} THEN 0 ELSE NoData])

Next ==
  \/ \E c \in Calls, pl \in Platforms : ToolCall(c, "query", pl)
  \/ \E c \in Calls : StartSqlJs(c)
  \/ \E c \in Calls : ResumeOpen(c)
  \/ \E c \in Calls, k \in 0..MaxBlock : RunQuery(c, k * Step)
  \/ \E c \in Calls : StartSqlite3(c)
  \/ \E c \in Calls : QueryComplete(c)
  \/ \E c \in Calls : QueryTimeout(c)
  \/ \E t \in timers : EvictFire(t)
  \/ \E h \in Handles : CloseComplete(h)
  \/ Shutdown
  \/ Exit
  \/ Tick

Spec == Init /\ [][Next]_vars

\* the tool handlers from server start: syncs, queries and the application writing,
\* within one idle period of the cache (the clock does not advance)
InitTool ==
  /\ InitServer
  /\ InitLocator
  /\ InitStage
  /\ InitReq
  /\ InitDisc
  /\ InitShell
  /\ InitHandler
  /\ InitProc
  /\ staged = [p \in Paths \ {IosPath} |-> NoData]
  /\ nextTmp = 1
  /\ activeDatabases = <<>>
  /\ hist = HistInit([p \in Paths |-> NoData])

NextTool ==
  \/ \E c \in Calls, kind \in {"query", "sync"}, pl \in Platforms \cup {"any"} :
       ToolCall(c, kind, pl)
  \/ \E c \in Calls, kind \in {"query", "sync"}, pl \in Platforms \cup {"any"} :
       ToolCallFails(c, kind, pl)
  \/ \E c \in Calls : AssignSync(c)
  \/ \E c \in Calls : AssignLazy(c)
  \/ \E pl \in Platforms : AppWrite(pl)
  \/ \E c \in Calls : StartSqlJs(c)
  \/ \E c \in Calls : ResumeOpen(c)
  \/ \E c \in Calls : RunQuery(c, 0)
  \/ \E c \in Calls : StartSqlite3(c)
  \/ \E c \in Calls : QueryComplete(c)

SpecTool == InitTool /\ [][NextTool]_vars

\* ---------------------------------------------------------------- locator
\* File names and selectors are sequences of one-character strings.
MaxFiles == 3

\* appDataDir on iOS, baseDir on Android: the storage root that discovery searches
Root == <<"/", "r">>

Slash == <<"/">>

DatabasesDir == <<"d", "a", "t", "a", "b", "a", "s", "e", "s">>

FilesDir == <<"f", "i", "l", "e", "s">>

ExtDb == <<".", "d", "b">>

ExtSqlite == <<".", "s", "q", "l", "i", "t", "e">>

ExtSqlite3 == <<".", "s", "q", "l", "i", "t", "e", "3">>

SfxJournal == <<"-", "j", "o", "u", "r", "n", "a", "l">>

SfxWal == <<"-", "w", "a", "l">>

SfxShm == <<"-", "s", "h", "m">>

\* the files an application may keep under its storage root:
\*   /r/c.sqlite3  /r/a.db  /r/databases/a.db  /r/files/ab.db  /r/databases/adb
\*   /r/databases/adb-wal
DeviceFiles ==
  { Root \o Slash \o <<"c">> \o ExtSqlite3,
    Root \o Slash \o <<"a">> \o ExtDb,
    Root \o Slash \o DatabasesDir \o Slash \o <<"a">> \o ExtDb,
    Root \o Slash \o FilesDir \o Slash \o <<"a", "b">> \o ExtDb,
    Root \o Slash \o DatabasesDir \o Slash \o <<"a", "d", "b">>,
    Root \o Slash \o DatabasesDir \o Slash \o <<"a", "d", "b">> \o SfxWal }

\* the selectors a caller may pass:
\*   (none)  a.db  ab.db  adb  *.db  a.*  *  *a.db  databases/a.db
Selectors ==
  { <<>>,
    <<"a">> \o ExtDb,
    <<"a", "b">> \o ExtDb,
    <<"a", "d", "b">>,
    <<"*">> \o ExtDb,
    <<"a", ".", "*">>,
    <<"*">>,
    <<"*", "a">> \o ExtDb,
    DatabasesDir \o Slash \o <<"a">> \o ExtDb }

\* the sequences of at most n distinct members of S: the orders `find` may print
RECURSIVE Listings(_, _)
Listings(S, n) ==
  IF n = 0 THEN {<<>>}
  ELSE LET shorter == Listings(S, n - 1)
       IN  shorter \cup
           { Append(l, f) : l \in {k \in shorter : Len(k) = n - 1},
                            f \in S }

Distinct(l) == \A i, j \in 1..Len(l) : l[i] = l[j] => i = j

\* String.prototype.endsWith
EndsWith(s, suffix) ==
  /\ Len(s) >= Len(suffix)
  /\ SubSeq(s, Len(s) - Len(suffix) + 1, Len(s)) = suffix

\* String.prototype.includes, of one character
Includes(s, ch) == \E i \in 1..Len(s) : s[i] = ch

\* the first position at which pat occurs in s, 0 when it does not
IndexOfSub(s, pat) ==
  LET hits == {i \in 1..(Len(s) - Len(pat) + 1) : SubSeq(s, i, i + Len(pat) - 1) = pat}
  IN  IF hits = {} THEN 0 ELSE CHOOSE i \in hits : \A j \in hits : i <= j

\* String.prototype.replace with a string pattern: the first occurrence only
ReplaceFirst(s, pat, rep) ==
  LET i == IndexOfSub(s, pat)
  IN  IF i = 0 THEN s
      ELSE SubSeq(s, 1, i - 1) \o rep \o SubSeq(s, i + Len(pat), Len(s))

\* path.basename: what follows the last separator
basename(p) ==
  LET seps == {i \in 1..Len(p) : p[i] = "/"}
      last == IF seps = {} THEN 0 ELSE CHOOSE i \in seps : \A j \in seps : j <= i
  IN  SubSeq(p, last + 1, Len(p))

\* find ... \( -name "*.db" -o -name "*.sqlite" -o -name "*.sqlite3" \)
FindByName(files) ==
  SelectSeq(files, LAMBDA f : \/ EndsWith(basename(f), ExtDb)
                              \/ EndsWith(basename(f), ExtSqlite)
                              \/ EndsWith(basename(f), ExtSqlite3))

\* ls -1p baseDir/databases, filtered: the entries of that directory that are not
\* sidecars and have no dot in their name, as paths again
LsDatabases(files) ==
  LET dir == Root \o Slash \o DatabasesDir \o Slash
      listed == SelectSeq(files, LAMBDA f :
                  /\ Len(f) > Len(dir)
                  /\ SubSeq(f, 1, Len(dir)) = dir
                  /\ ~Includes(SubSeq(f, Len(dir) + 1, Len(f)), "/"))
      names == [i \in 1..Len(listed) |-> SubSeq(listed[i], Len(dir) + 1, Len(listed[i]))]
      kept == SelectSeq(names, LAMBDA f :
                /\ ~EndsWith(f, SfxJournal) /\ ~EndsWith(f, SfxWal) /\ ~EndsWith(f, SfxShm)
                /\ ~Includes(f, "."))
  IN  [i \in 1..Len(kept) |-> dir \o kept[i]]

\* [...new Set(foundFiles)]: the first occurrence of every member, in order
RECURSIVE Dedupe(_)
Dedupe(l) ==
  IF l = <<>> THEN <<>>
  ELSE LET front == Dedupe(SubSeq(l, 1, Len(l) - 1))
           last == l[Len(l)]
       IN  IF \E i \in 1..Len(front) : front[i] = last THEN front
           ELSE Append(front, last)

\* the files discovery finds on a platform, as the paths the device reports
FoundFiles(pl, files) ==
  IF pl = "ios" THEN FindByName(files)
  ELSE Dedupe(FindByName(files) \o LsDatabases(files))

\* the name a location lists a found file under: its basename on iOS, its path
\* relative to the storage root on Android
DisplayName(pl, f) ==
  IF pl = "ios" THEN basename(f)
  ELSE ReplaceFirst(f, Root \o Slash, <<>>)

\* listDatabases: the databases of the location of platform pl (<<>>: no location)
listDatabases(pl, files) ==
  LET found == FoundFiles(pl, files)
  IN  [i \in 1..Len(found) |-> DisplayName(pl, found[i])]

\* dbNameGlob.replace(/\*/g, '.*'): the source of the regular expression
RECURSIVE ReplaceStars(_)
ReplaceStars(g) ==
  IF g = <<>> THEN <<>>
  ELSE (IF Head(g) = "*" THEN <<".", "*">> ELSE <<Head(g)>>) \o ReplaceStars(Tail(g))

\* what one atom of the expression matches: a dot any character, any other
\* character of the selectors' alphabet (letters, digits, '/', '-') itself
AtomMatches(atom, ch) == atom = "." \/ atom = ch

\* RegExp matching of s from position j against the expression rx from position
\* i, to the end of both: an atom followed by "*" repeats any number of times
RECURSIVE RegExpMatchesFrom(_, _, _, _)
RegExpMatchesFrom(rx, i, s, j) ==
  IF i > Len(rx) THEN j > Len(s)
  ELSE IF i < Len(rx) /\ rx[i + 1] = "*"
       THEN \/ RegExpMatchesFrom(rx, i + 2, s, j)
            \/ /\ j <= Len(s)
               /\ AtomMatches(rx[i], s[j])
               /\ RegExpMatchesFrom(rx, i, s, j + 1)
       ELSE /\ j <= Len(s)
            /\ AtomMatches(rx[i], s[j])
            /\ RegExpMatchesFrom(rx, i + 1, s, j + 1)

\* new RegExp('^' + dbNameGlob.replace(/\*/g, '.*') + '$').test(name)
globRegexTest(glob, name) == RegExpMatchesFrom(ReplaceStars(glob), 1, name, 1)

\* syncDatabase, the choice of targetDbNames for one location
TargetDbNames(databases, glob) ==
  IF glob = <<>>
  THEN LET preferred == SelectSeq(databases, LAMBDA d :
                          EndsWith(d, ExtDb) \/ EndsWith(d, ExtSqlite))
       IN  IF preferred /= <<>> THEN <<Head(preferred)>>
           ELSE IF databases /= <<>> THEN <<Head(databases)>>
           ELSE <<>>
  ELSE SelectSeq(databases, LAMBDA name : globRegexTest(glob, name))

\* syncDatabase up to the choice of the names to stage, for the platform asked
\* for: discovery, then the selection in the location found.  Without a location,
\* or without a selected name, nothing is staged and the call throws.
SelectDatabases ==
  /\ selPc = "start"
  /\ LET databases == listDatabases(devPlatform, deviceFiles)
         targets == TargetDbNames(databases, dbNameGlob)
     IN  /\ locDatabases' = databases
         /\ targetDbNames' = targets
         /\ selPc' = IF targets = <<>> THEN "failed" ELSE "selected"
  /\ UNCHANGED <<serverVars, stageVars, discVars, shellVars, handlerVars, procVars,
                 devPlatform, deviceFiles, dbNameGlob>>

\* every platform, every listing of the application's files and every selector
InitSelect ==
  /\ InitServer
  /\ staged = [p \in Paths \ {IosPath} |-> NoData]
  /\ nextTmp = 1
  /\ activeDatabases = <<>>
  /\ hist = HistInit([p \in Paths |-> NoData])
  /\ devPlatform \in Platforms
  /\ deviceFiles \in {l \in Listings(DeviceFiles, MaxFiles) : Distinct(l)}
  /\ dbNameGlob \in Selectors
  /\ locDatabases = <<>>
  /\ targetDbNames = <<>>
  /\ selPc = "start"
  /\ InitStage
  /\ InitReq
  /\ InitDisc
  /\ InitShell
  /\ InitHandler
  /\ InitProc

NextSelect == SelectDatabases

SpecSelect == InitSelect /\ [][NextSelect]_vars

\* ------------------------------------------------------ discovery and staging
MaxPkgFiles == 1

MaxSimFiles == 1

\* the debuggable third-party packages, in the order `pm list packages -3` prints
Packages == {"p", "q"}

PackageOrder == <<"p", "q">>

\* the files a package may keep under its baseDir:
\*   /r/a.db  /r/databases/a.db  /r/databases/adb
PkgFiles ==
  { Root \o Slash \o <<"a">> \o ExtDb,
    Root \o Slash \o DatabasesDir \o Slash \o <<"a">> \o ExtDb,
    Root \o Slash \o DatabasesDir \o Slash \o <<"a", "d", "b">> }

\* the files the simulator's applications may keep under appDataDir:
\*   /r/a.db  /r/databases/a.db  /r/files/ab.db
SimFiles ==
  { Root \o Slash \o <<"a">> \o ExtDb,
    Root \o Slash \o DatabasesDir \o Slash \o <<"a">> \o ExtDb,
    Root \o Slash \o FilesDir \o Slash \o <<"a", "b">> \o ExtDb }

\* the selectors of a sync:  (none)  *  a.db
SyncSelectors == { <<>>, <<"*">>, <<"a">> \o ExtDb }

\* packagesToScan
PackagesToScan(bundle) == IF bundle /= "none" THEN <<bundle>> ELSE PackageOrder

\* the loop over packagesToScan: a package with files found adds their display
\* names to allAndroidDatabases and becomes lastSuccessfulAppDir.  (foundIn is
\* history: the package each name was found under.)
RECURSIVE ScanPackages(_, _, _)
ScanPackages(pkgs, files, acc) ==
  IF pkgs = <<>> THEN acc
  ELSE LET pkg == Head(pkgs)
           found == FoundFiles("android", files[pkg])
       IN  ScanPackages(Tail(pkgs), files,
             IF Len(found) > 0
             THEN [databases |-> acc.databases \o listDatabases("android", files[pkg]),
                   appDir |-> AppDir(pkg, pkg),
                   foundIn |-> acc.foundIn \o [i \in 1..Len(found) |-> pkg]]
             ELSE acc)

\* listDatabases(bundleId, targetPlatform) with a booted simulator and a
\* responsive emulator: at most one location per platform
Locations(tp, bundle, simFiles, pkgFiles) ==
  LET names == listDatabases("ios", simFiles)
      ios == IF tp \in {"any", "ios"} /\ names /= <<>>
             THEN <<[platform |-> "ios", appDir |-> AppDir("sim", "none"),
                     databases |-> names,
                     foundIn |-> [i \in 1..Len(names) |-> "sim"]]>>
             ELSE <<>>
      scan == ScanPackages(PackagesToScan(bundle), pkgFiles,
                           [databases |-> <<>>, appDir |-> NoAppDir, foundIn |-> <<>>])
      adr == IF tp \in {"any", "android"} /\ scan.databases /= <<>>
             THEN <<[platform |-> "android", appDir |-> scan.appDir,
                     databases |-> scan.databases, foundIn |-> scan.foundIn]>>
             ELSE <<>>
  IN  ios \o adr

\* the positions in databases of the names TargetDbNames selects (history)
RECURSIVE MatchingFrom(_, _, _)
MatchingFrom(databases, glob, i) ==
  IF i > Len(databases) THEN <<>>
  ELSE (IF globRegexTest(glob, databases[i]) THEN <<i>> ELSE <<>>)
       \o MatchingFrom(databases, glob, i + 1)

TargetIndexes(databases, glob) ==
  IF glob = <<>>
  THEN LET preferred == {i \in 1..Len(databases) :
                           EndsWith(databases[i], ExtDb) \/ EndsWith(databases[i], ExtSqlite)}
       IN  IF preferred /= {} THEN <<CHOOSE i \in preferred : \A j \in preferred : i <= j>>
           ELSE IF databases /= <<>> THEN <<1>>
           ELSE <<>>
  ELSE MatchingFrom(databases, glob, 1)

\* the two nested loops of syncDatabase, in order: every location, every name
\* selected in it
RECURSIVE Targets(_, _)
Targets(locations, glob) ==
  IF locations = <<>> THEN <<>>
  ELSE LET loc == Head(locations)
           names == TargetDbNames(loc.databases, glob)
           at == TargetIndexes(loc.databases, glob)
       IN  [k \in 1..Len(names) |->
              [platform |-> loc.platform, appDir |-> loc.appDir,
               targetDbName |-> names[k], foundIn |-> loc.foundIn[at[k]]]]
           \o Targets(Tail(locations), glob)

\* targetDbName.replace(/\//g, '_')
RECURSIVE safeLocalName(_)
safeLocalName(name) ==
  IF name = <<>> THEN <<>>
  ELSE <<IF Head(name) = "/" THEN "_" ELSE Head(name)>> \o safeLocalName(Tail(name))

\* every staging uses the first staging directory (mutant of the next)
SameTmpDir(last) == 1

\* fs.mkdtempSync(path.join(os.tmpdir(), "rn-sqlite-mcp-")): a directory that did
\* not exist; directories are numbered in the order they are made
mkdtempSync(last) == last + 1

\* a local path: a name in staging directory dir, or (dir 0) a path of the host
LocalPath(dir, name) == [dir |-> dir, name |-> name]

\* what can happen to one pullOne: every command succeeds and the file has
\* contents ("ok") or is empty ("empty"), or one of the three commands fails
PullOutcomes == {"ok", "empty", "catFails", "pullFails", "rmFails"}

\* pullOne: its return value, what it leaves at the local path, how many times
\* it ran `adb pull`, and what became of tmpRemote on the device.  The first
\* command that throws ends the try: after a failed cat (whose redirection has
\* created tmpRemote) or a failed pull the rm is not run, and the catch removes
\* the local file.
pullOne(result) ==
  IF result = "ok"
  THEN [ok |-> TRUE, local |-> "full", pulls |-> 1, tmpRemote |-> "removed"]
  ELSE IF result = "empty"
  THEN [ok |-> FALSE, local |-> "empty", pulls |-> 1, tmpRemote |-> "removed"]
  ELSE IF result = "catFails"
  THEN [ok |-> FALSE, local |-> "absent", pulls |-> 0, tmpRemote |-> "left"]
  ELSE IF result = "pullFails"
  THEN [ok |-> FALSE, local |-> "absent", pulls |-> 1, tmpRemote |-> "left"]
  ELSE [ok |-> FALSE, local |-> "absent", pulls |-> 1, tmpRemote |-> "rmFailed"]

\* the host's files after a staging has written (or removed) one
WriteLocal(files, path, local, pkg, remote) ==
  {f \in files : f.path /= path}
    \cup (IF local = "absent" THEN {}
          ELSE {[path |-> path, size |-> IF local = "full" THEN 1 ELSE 0,
                 pkg |-> pkg, remote |-> remote]})

PushedWithSidecars(mainOk, walOk, shmOk) == mainOk /\ walOk /\ shmOk

\* synced.push(...) happens for a target whose primary file was staged
Pushed(mainOk, walOk, shmOk) == mainOk

NeverNoneSynced(list) == FALSE

\* synced.length === 0
NoneSynced(list) == Len(list) = 0

StopAfterFailure(rest) == <<>>

\* what follows a target that could not be staged: `continue`
AfterFailure(rest) == rest

\* syncDatabase up to the staging loop: discovery, and the names selected in every
\* location.  Without a location the call throws.
SyncStart ==
  /\ syncPc = "start"
  /\ LET locations == Locations(targetPlatform, bundleId, deviceFiles, androidFiles)
     IN  /\ work' = Targets(locations, dbNameGlob)
         /\ syncPc' = IF locations = <<>> THEN "threw" ELSE "staging"
  /\ UNCHANGED <<serverVars, locVars, discVars, shellVars, handlerVars, procVars,
                 targetPlatform, bundleId, androidFiles, synced,
                 hostFiles, stageTmp, stageLog>>

\* the iOS branch for the next target: find -name targetDbName | head -n 1 under
\* appDataDir, then fs.existsSync.  The file is used where it is.
StageIos(result) ==
  /\ syncPc = "staging"
  /\ work /= <<>>
  /\ Head(work).platform = "ios"
  /\ LET t == Head(work)
         hits == SelectSeq(deviceFiles, LAMBDA f : basename(f) = t.targetDbName)
         ok == result /= "miss"
         path == LocalPath(0, Head(hits))
     IN  /\ ok => hits /= <<>>
         /\ synced' = IF ok
                      THEN Append(synced, [localPath |-> path, dbName |-> t.targetDbName,
                                           platform |-> "ios"])
                      ELSE synced
         /\ hostFiles' = IF ok
                         THEN WriteLocal(hostFiles, path,
                                         IF result = "found" THEN "full" ELSE "empty",
                                         "sim", Head(hits))
                         ELSE hostFiles
         /\ work' = IF ok THEN Tail(work) ELSE AfterFailure(Tail(work))
         /\ stageLog' = Append(stageLog,
                          [platform |-> "ios", dbName |-> t.targetDbName,
                           foundIn |-> t.foundIn, readPkg |-> "sim",
                           main |-> ok, wal |-> FALSE, shm |-> FALSE,
                           result |-> result, pulls |-> 0, kept |-> ok,
                           tmpRemote |-> <<"none", "none", "none">>])
  /\ UNCHANGED <<serverVars, locVars, discVars, shellVars, handlerVars, procVars,
                 targetPlatform, bundleId, androidFiles, stageTmp,
                 syncPc>>

\* the Android branch for the next target: a new staging directory, pullOne of
\* the primary file from `${targetDbDir}/${targetDbName}` as targetPkg, and, when
\* that succeeded, of the two sidecars
StageAndroid(main, wal, shm) ==
  /\ syncPc = "staging"
  /\ work /= <<>>
  /\ Head(work).platform = "android"
  /\ LET t == Head(work)
         tmpdir == mkdtempSync(stageTmp)
         localDb == LocalPath(tmpdir, safeLocalName(t.targetDbName))
         localWal == LocalPath(tmpdir, localDb.name \o SfxWal)
         localShm == LocalPath(tmpdir, localDb.name \o SfxShm)
         remoteMain == Root \o Slash \o t.targetDbName
         present == \E i \in 1..Len(androidFiles[t.appDir.dir]) :
                      androidFiles[t.appDir.dir][i] = remoteMain
         m == pullOne(main)
         w == pullOne(wal)
         s == pullOne(shm)
         withMain == WriteLocal(hostFiles, localDb, m.local, t.appDir.pkg, remoteMain)
         withWal == WriteLocal(withMain, localWal, w.local, t.appDir.pkg,
                               remoteMain \o SfxWal)
     IN  /\ main /= "catFails" => present
         /\ ~m.ok => wal = "catFails" /\ shm = "catFails"
         /\ stageTmp' = tmpdir
         /\ hostFiles' = IF m.ok
                         THEN WriteLocal(withWal, localShm, s.local, t.appDir.pkg,
                                         remoteMain \o SfxShm)
                         ELSE withMain
         /\ synced' = IF Pushed(m.ok, w.ok, s.ok)
                      THEN Append(synced, [localPath |-> localDb, dbName |-> t.targetDbName,
                                           platform |-> "android"])
                      ELSE synced
         /\ work' = IF m.ok THEN Tail(work) ELSE AfterFailure(Tail(work))
         /\ stageLog' = Append(stageLog,
                          [platform |-> "android", dbName |-> t.targetDbName,
                           foundIn |-> t.foundIn, readPkg |-> t.appDir.pkg,
                           main |-> m.ok, wal |-> m.ok /\ w.ok, shm |-> m.ok /\ s.ok,
                           result |-> main, pulls |-> m.pulls, kept |-> m.local = "full",
                           tmpRemote |-> <<m.tmpRemote,
                                           IF m.ok THEN w.tmpRemote ELSE "none",
                                           IF m.ok THEN s.tmpRemote ELSE "none">>])
  /\ UNCHANGED <<serverVars, locVars, discVars, shellVars, handlerVars, procVars,
                 targetPlatform, bundleId, androidFiles, syncPc>>

\* after the loops: the call throws when nothing was staged, and returns synced
\* otherwise
SyncFinish ==
  /\ syncPc = "staging"
  /\ work = <<>>
  /\ syncPc' = IF NoneSynced(synced) THEN "threw" ELSE "returned"
  /\ UNCHANGED <<serverVars, locVars, discVars, shellVars, handlerVars, procVars,
                 targetPlatform, bundleId, androidFiles, work,
                 synced, hostFiles, stageTmp, stageLog>>

\* every request, and every content of the simulator and of the two packages
InitSync ==
  /\ InitServer
  /\ staged = [p \in Paths \ {IosPath} |-> NoData]
  /\ nextTmp = 1
  /\ activeDatabases = <<>>
  /\ hist = HistInit([p \in Paths |-> NoData])
  /\ devPlatform = "ios"
  /\ deviceFiles \in {l \in Listings(SimFiles, MaxSimFiles) : Distinct(l)}
  /\ dbNameGlob \in SyncSelectors
  /\ locDatabases = <<>>
  /\ targetDbNames = <<>>
  /\ selPc = "idle"
  /\ targetPlatform \in Platforms \cup {"any"}
  /\ bundleId \in {"none", "q"}
  /\ androidFiles \in [Packages -> {l \in Listings(PkgFiles, MaxPkgFiles) : Distinct(l)}]
  /\ work = <<>>
  /\ synced = <<>>
  /\ hostFiles = {}
  /\ stageTmp = 0
  /\ syncPc = "start"
  /\ stageLog = <<>>
  /\ InitReq
  /\ InitDisc
  /\ InitShell
  /\ InitHandler
  /\ InitProc

NextSync ==
  \/ SyncStart
  \/ \E result \in {"found", "empty", "miss"} : StageIos(result)
  \/ \E main, wal, shm \in PullOutcomes : StageAndroid(main, wal, shm)
  \/ SyncFinish

SpecSync == InitSync /\ [][NextSync]_vars

\* ------------------------------------------------------- the query handler
MaxActive == 2

LowerCase ==
  <<"a", "b", "c", "d", "e", "f", "g", "h", "i", "j", "k", "l", "m", "n", "o", "p", "q", "r", "s", "t", "u", "v", "w", "x", "y", "z">>

UpperCase ==
  <<"A", "B", "C", "D", "E", "F", "G", "H", "I", "J", "K", "L", "M", "N", "O", "P", "Q", "R", "S", "T", "U", "V", "W", "X", "Y", "Z">>

\* the white space String.prototype.trim removes
WhiteSpace == {" ", "\t", "\n", "\r"}

MapChars(s, from, to) ==
  [i \in 1..Len(s) |->
     IF \E k \in 1..Len(from) : from[k] = s[i]
     THEN to[CHOOSE k \in 1..Len(from) : from[k] = s[i]]
     ELSE s[i]]

\* String.prototype.toUpperCase and toLowerCase
toUpperCase(s) == MapChars(s, LowerCase, UpperCase)

toLowerCase(s) == MapChars(s, UpperCase, LowerCase)

\* String.prototype.trim
trim(s) ==
  LET kept == {i \in 1..Len(s) : s[i] \notin WhiteSpace}
  IN  IF kept = {} THEN <<>>
      ELSE SubSeq(s, CHOOSE i \in kept : \A j \in kept : i <= j,
                     CHOOSE i \in kept : \A j \in kept : j <= i)

\* String.prototype.startsWith
startsWith(s, prefix) == Len(s) >= Len(prefix) /\ SubSeq(s, 1, Len(prefix)) = prefix

KwSelect == <<"S", "E", "L", "E", "C", "T">>

KwPragma == <<"P", "R", "A", "G", "M", "A">>

KwExplain == <<"E", "X", "P", "L", "A", "I", "N">>

PlatformIos == <<"i", "o", "s">>

PlatformAndroid == <<"a", "n", "d", "r", "o", "i", "d">>

\* the statements a query_db request may carry:
\*   'SELECT 1'
\*   '\n select 1'
\*   'PRAGMA x'
\*   'explain SELECT 1'
\*   'DELETE FROM t'
\*   ' delete from t'
\*   'UPDATE t'
\*   'SELECTS 1'
Statements ==
  { <<"S", "E", "L", "E", "C", "T", " ", "1">>,
    <<"\n", " ", "s", "e", "l", "e", "c", "t", " ", "1">>,
    <<"P", "R", "A", "G", "M", "A", " ", "x">>,
    <<"e", "x", "p", "l", "a", "i", "n", " ", "S", "E", "L", "E", "C", "T", " ", "1">>,
    <<"D", "E", "L", "E", "T", "E", " ", "F", "R", "O", "M", " ", "t">>,
    <<" ", "d", "e", "l", "e", "t", "e", " ", "f", "r", "o", "m", " ", "t">>,
    <<"U", "P", "D", "A", "T", "E", " ", "t">>,
    <<"S", "E", "L", "E", "C", "T", "S", " ", "1">> }

\* the values of args.platform a request may carry:
\*   'ios'
\*   'android'
\*   "'IOS'"
\*   ' Android'
\*   'web'
RawPlatforms ==
  { <<"i", "o", "s">>,
    <<"a", "n", "d", "r", "o", "i", "d">>,
    <<"'", "I", "O", "S", "'">>,
    <<" ", "A", "n", "d", "r", "o", "i", "d">>,
    <<"w", "e", "b">> }

\* the entries a sync may have left in the selection
ActiveEntries ==
  {[localPath |-> IosPath, dbName |-> n, platform |-> "ios"] : n \in {DbName, OtherDbName}}
    \cup {[localPath |-> TmpPath(k), dbName |-> n, platform |-> "android"] :
            k \in 1..MaxSyncs, n \in {DbName, OtherDbName}}

\* cleanPlatform: quotes removed, trimmed, lower-cased; "none" is undefined
cleanPlatform(raw) ==
  LET cleaned == toLowerCase(trim(SelectSeq(raw, LAMBDA ch : ch \notin {"'", "\""})))
  IN  IF raw = <<>> THEN "none"
      ELSE IF cleaned = PlatformIos THEN "ios"
      ELSE IF cleaned = PlatformAndroid THEN "android"
      ELSE "none"

\* ensureDbState: the candidates left by the platform and the dbName filters
FilterCandidates(active, platform, dbName) ==
  SelectSeq(active, LAMBDA db :
    /\ platform /= "none" => db.platform = platform
    /\ dbName /= "" => db.dbName = dbName)

AnyCandidate(candidates) == Len(candidates) >= 1

\* candidates.length === 1
OneCandidate(candidates) == Len(candidates) = 1

\* the READ_ONLY test of query_db: TRUE when the statement is let through
ReadOnlyAllows(sql) ==
  LET normalized == toUpperCase(trim(sql))
  IN  \/ startsWith(normalized, KwSelect)
      \/ startsWith(normalized, KwPragma)
      \/ startsWith(normalized, KwExplain)

\* ensureDbState with a selection present: one candidate is returned, none or
\* several are an error
EnsureDbState ==
  /\ reqPc = "start"
  /\ LET candidates == FilterCandidates(activeDatabases, cleanPlatform(reqPlatform),
                                        reqDbName)
     IN  /\ reqPc' = IF OneCandidate(candidates) THEN "ensured"
                     ELSE IF Len(candidates) = 0 THEN "nomatch"
                     ELSE "ambiguous"
         /\ reqDb' = IF OneCandidate(candidates) THEN candidates[1] ELSE NoDb
  /\ UNCHANGED <<engine, now, SQL, cacheVars, callVars, closeVars, syncVars, hist,
                 locVars, stageVars, discVars, shellVars, handlerVars, procVars,
                 READ_ONLY, reqPlatform, reqDbName, reqSql>>

\* query_db after ensureDbState: the sql argument must be there, the read-only
\* test must let it through, and then queryDb is called with it
CheckSql ==
  /\ reqPc = "ensured"
  /\ reqPc' = IF reqSql = <<>> THEN "missing"
              ELSE IF READ_ONLY /\ ~ReadOnlyAllows(reqSql) THEN "rejected"
              ELSE "engine"
  /\ UNCHANGED <<engine, now, SQL, cacheVars, callVars, closeVars, syncVars, hist,
                 locVars, stageVars, discVars, shellVars, handlerVars, procVars,
                 READ_ONLY, reqPlatform, reqDbName, reqSql, reqDb>>

\* every request against every selection a sync may have left
InitQuery ==
  /\ InitServer
  /\ InitLocator
  /\ InitStage
  /\ InitDisc
  /\ InitShell
  /\ InitHandler
  /\ InitProc
  /\ staged = [p \in Paths \ {IosPath} |-> 0]
  /\ nextTmp = MaxSyncs + 1
  /\ activeDatabases \in {l \in Listings(ActiveEntries, MaxActive) : l /= <<>>}
  /\ hist = HistInit([p \in Paths |-> 0])
  /\ READ_ONLY \in BOOLEAN
  /\ reqPlatform \in RawPlatforms \cup {<<>>}
  /\ reqDbName \in {"", DbName, OtherDbName}
  /\ reqSql \in Statements \cup {<<>>}
  /\ reqDb = NoDb
  /\ reqPc = "start"

NextQuery ==
  \/ EnsureDbState
  \/ CheckSql

SpecQuery == InitQuery /\ [][NextQuery]_vars

\* ---------------------------------------------------------- the device probes
MaxRootFiles == 1

\* baseDirs: /data/user/0/${pkg} and /data/data/${pkg}, in the order tried
BaseDirs == <<"user", "data">>

\* the files a package may keep under one of its storage roots:
\*   /r/a.db  /r/databases/adb
RootFileSet ==
  { Root \o Slash \o <<"a">> \o ExtDb,
    Root \o Slash \o DatabasesDir \o Slash \o <<"a", "d", "b">> }

ErrNoIos == "No booted iOS Simulator found or xcrun failed."

ErrNoAndroid == "No booted Android Emulator found or adb is unresponsive."

ErrNoDevice == "No booted iOS Simulator or Android Emulator device found."

ErrNoPackages ==
  "Could not list packages on Android Emulator to discover databases. Is it fully booted?"

ErrNoDatabases ==
  "Android Emulator is booted, but no SQLite databases were found in any debuggable third-party packages."

\* the errors the try around the simulator probe catches: the one thrown on an
\* empty udid and the one execSync throws when xcrun fails
ErrSimctlEmpty == "No booted iOS Simulator found (simctl returned empty)."

ErrXcrun == "Command failed: xcrun simctl list devices booted"

\* e.message?.includes("find failed"): neither caught message contains it
IncludesFindFailed(e) == e \notin {ErrSimctlEmpty, ErrXcrun}

\* the catch of the simulator probe swallows the error (mutant of the next)
IosCatchSwallows(tp, e) == FALSE

\* the catch of the simulator probe: rethrown as the no-device error when iOS was
\* asked for
IosCatchRethrows(tp, e) == tp = "ios" /\ ~IncludesFindFailed(e)

\* an unresponsive adb is always fatal (mutant of the next)
AdbUnresponsiveFatal(tp, results) ==
  IF tp = "android" THEN ErrNoAndroid ELSE ErrNoDevice

\* the catch of `adb get-state`: the error thrown, "none" when results is returned
AdbUnresponsive(tp, results) ==
  IF tp = "android" THEN ErrNoAndroid
  ELSE IF Len(results) = 0 THEN ErrNoDevice
  ELSE "none"

\* the catch of `pm list packages -3`
PmListFails(results) == IF Len(results) = 0 THEN ErrNoPackages ELSE "none"

\* the two loops, unrolled: every package with each of its baseDirs, in order
RECURSIVE RootsToScan(_)
RootsToScan(pkgs) ==
  IF pkgs = <<>> THEN <<>>
  ELSE [i \in 1..Len(BaseDirs) |-> [pkg |-> Head(pkgs), dir |-> BaseDirs[i]]]
       \o RootsToScan(Tail(pkgs))

\* break: the baseDirs of pkg that are left are not tried
RECURSIVE Break(_, _)
Break(queue, pkg) ==
  IF queue /= <<>> /\ Head(queue).pkg = pkg THEN Break(Tail(queue), pkg) ELSE queue

\* the simulator probe and the search of its application data
DiscoverIos(probe, exists, find) ==
  /\ dPc = "ios"
  /\ IF targetPlatform = "android"
     THEN /\ dPc' = "android"
          /\ UNCHANGED <<dResults, dError, envLog>>
     ELSE LET names == listDatabases("ios", deviceFiles)
              thrown == IF probe = "fails" THEN ErrXcrun
                        ELSE IF probe = "empty" /\ targetPlatform = "ios"
                             THEN ErrSimctlEmpty
                        ELSE "none"
          IN  /\ envLog' = [envLog EXCEPT !.ios = probe]
              /\ IF thrown /= "none" /\ IosCatchRethrows(targetPlatform, thrown)
                 THEN /\ dPc' = "threw"
                      /\ dError' = ErrNoIos
                      /\ UNCHANGED dResults
                 ELSE /\ dPc' = "android"
                      /\ dError' = dError
                      /\ dResults' =
                           IF probe = "udid" /\ exists /\ find = "ok" /\ Len(names) > 0
                           THEN Append(dResults,
                                       [platform |-> "ios", appDir |-> AppDir("sim", "none"),
                                        databases |-> names])
                           ELSE dResults
  /\ UNCHANGED <<scanQueue, allAndroidDatabases, lastSuccessfulAppDir, rootFiles, probeLog>>
  /\ UNCHANGED <<serverVars, locVars, stageVars, shellVars, handlerVars, procVars>>

\* the emulator probe and packagesToScan
DiscoverAndroid(adb, pm) ==
  /\ dPc = "android"
  /\ IF targetPlatform = "ios"
     THEN /\ dPc' = "returned"
          /\ UNCHANGED <<dError, scanQueue, envLog>>
     ELSE IF adb = "fails"
     THEN LET error == AdbUnresponsive(targetPlatform, dResults)
          IN  /\ envLog' = [envLog EXCEPT !.adb = adb]
              /\ dPc' = IF error = "none" THEN "returned" ELSE "threw"
              /\ dError' = error
              /\ UNCHANGED scanQueue
     ELSE IF bundleId /= "none"
     THEN /\ envLog' = [envLog EXCEPT !.adb = adb]
          /\ dPc' = "scan"
          /\ scanQueue' = RootsToScan(PackagesToScan(bundleId))
          /\ UNCHANGED dError
     ELSE IF pm = "fails"
     THEN LET error == PmListFails(dResults)
          IN  /\ envLog' = [envLog EXCEPT !.adb = adb, !.pm = pm]
              /\ dPc' = IF error = "none" THEN "returned" ELSE "threw"
              /\ dError' = error
              /\ UNCHANGED scanQueue
     ELSE /\ envLog' = [envLog EXCEPT !.adb = adb, !.pm = pm]
          /\ dPc' = "scan"
          /\ scanQueue' = RootsToScan(PackagesToScan(bundleId))
          /\ UNCHANGED dError
  /\ UNCHANGED <<dResults, allAndroidDatabases, lastSuccessfulAppDir, rootFiles, probeLog>>
  /\ UNCHANGED <<serverVars, locVars, stageVars, shellVars, handlerVars, procVars>>

\* one turn of the inner loop: baseDir is probed with ls -d and, when that
\* answers, searched by find and by ls of its databases directory
ScanRoot(lsd, find, ls) ==
  /\ dPc = "scan"
  /\ scanQueue /= <<>>
  /\ LET pkg == Head(scanQueue).pkg
         baseDir == Head(scanQueue).dir
         files == rootFiles[pkg][baseDir]
         foundFiles == Dedupe((IF find = "ok" THEN FindByName(files) ELSE <<>>)
                              \o (IF ls = "ok" THEN LsDatabases(files) ELSE <<>>))
         displayFiles == [i \in 1..Len(foundFiles) |-> DisplayName("android", foundFiles[i])]
     IN  /\ probeLog' = Append(probeLog, [pkg |-> pkg, dir |-> baseDir, lsd |-> lsd])
         /\ IF lsd = "ok" /\ Len(foundFiles) > 0
            THEN /\ allAndroidDatabases' = allAndroidDatabases \o displayFiles
                 /\ lastSuccessfulAppDir' = AppDir(baseDir, pkg)
                 /\ scanQueue' = Break(Tail(scanQueue), pkg)
            ELSE /\ scanQueue' = Tail(scanQueue)
                 /\ UNCHANGED <<allAndroidDatabases, lastSuccessfulAppDir>>
  /\ UNCHANGED <<dPc, dResults, dError, rootFiles, envLog>>
  /\ UNCHANGED <<serverVars, locVars, stageVars, shellVars, handlerVars, procVars>>

\* after the loops: the Android location, or the error of an explicit request
DiscoverFinish ==
  /\ dPc = "scan"
  /\ scanQueue = <<>>
  /\ IF Len(allAndroidDatabases) > 0
     THEN /\ dResults' = Append(dResults,
                                [platform |-> "android", appDir |-> lastSuccessfulAppDir,
                                 databases |-> allAndroidDatabases])
          /\ dPc' = "returned"
          /\ UNCHANGED dError
     ELSE IF targetPlatform = "android"
     THEN /\ dPc' = "threw"
          /\ dError' = ErrNoDatabases
          /\ UNCHANGED dResults
     ELSE /\ dPc' = "returned"
          /\ UNCHANGED <<dResults, dError>>
  /\ UNCHANGED <<scanQueue, allAndroidDatabases, lastSuccessfulAppDir, rootFiles, probeLog,
                 envLog>>
  /\ UNCHANGED <<serverVars, locVars, stageVars, shellVars, handlerVars, procVars>>

\* listDatabases(bundleId, targetPlatform) is called on some device state
InitDiscover ==
  /\ InitServer
  /\ engine = "sqljs"
  /\ targetPlatform \in Platforms \cup {"any"}
  /\ bundleId \in {"none", "q"}
  /\ androidFiles = <<>>
  /\ work = <<>>
  /\ synced = <<>>
  /\ hostFiles = {}
  /\ stageTmp = 0
  /\ syncPc = "idle"
  /\ stageLog = <<>>
  /\ InitReq
  /\ InitShell
  /\ InitHandler
  /\ InitProc
  /\ staged = [p \in Paths \ {IosPath} |-> NoData]
  /\ nextTmp = 1
  /\ activeDatabases = <<>>
  /\ hist = HistInit([p \in Paths |-> NoData])
  /\ devPlatform = "ios"
  /\ deviceFiles \in {l \in Listings(SimFiles, MaxSimFiles) : Distinct(l)}
  /\ dbNameGlob = <<>>
  /\ locDatabases = <<>>
  /\ targetDbNames = <<>>
  /\ selPc = "idle"
  /\ dPc = "ios"
  /\ dResults = <<>>
  /\ dError = "none"
  /\ scanQueue = <<>>
  /\ allAndroidDatabases = <<>>
  /\ lastSuccessfulAppDir = NoAppDir
  /\ rootFiles \in [Packages ->
                     [{BaseDirs[i] : i \in 1..Len(BaseDirs)} ->
                        {l \in Listings(RootFileSet, MaxRootFiles) : Distinct(l)}]]
  /\ probeLog = <<>>
  /\ envLog = NoEnvLog

NextDiscover ==
  \/ \E probe \in {"udid", "empty", "fails"}, exists \in BOOLEAN, find \in {"ok", "fails"} :
       DiscoverIos(probe, exists, find)
  \/ \E adb, pm \in {"ok", "fails"} : DiscoverAndroid(adb, pm)
  \/ \E lsd, find, ls \in {"ok", "fails"} : ScanRoot(lsd, find, ls)
  \/ DiscoverFinish

SpecDiscover == InitDiscover /\ [][NextDiscover]_vars

\* ------------------------------------------------------------------- shell
MaxRetries == 2

\* the values of options.retryDelay (ms)
RetryDelays == {1000, 250}

\* String.prototype.slice, for indexes that are not negative
slice(s, from, to) ==
  IF from >= Len(s) \/ to <= from THEN <<>>
  ELSE SubSeq(s, from + 1, IF to < Len(s) THEN to ELSE Len(s))

\* the commands run:  ls  and one of 61 characters
Commands == { <<"l", "s">>, [i \in 1..61 |-> "x"] }

\* the labels given:  (none)  pull
Labels == { <<>>, <<"p", "u", "l", "l">> }

\* what the command may print:  (nothing)  "ok"  " ok\n"  "\n"  "a b\n"
Stdouts ==
  { <<>>, <<"o", "k">>, <<" ", "o", "k", "\n">>, <<"\n">>, <<"a", " ", "b", "\n">> }

\* label || command.slice(0, 60)
Tag(label, command) == IF label /= <<>> THEN label ELSE slice(command, 0, 60)

\* every retry waits the same time (mutant of the next)
FixedDelay(retryDelay, attempt) == retryDelay

\* retryDelay * Math.pow(2, attempt - 1)
Backoff(retryDelay, attempt) == retryDelay * 2 ^ (attempt - 1)

\* the first failure is the last (mutant of the next)
GivesUpAtOnce(attempt, retries) == TRUE

\* isLastAttempt
IsLastAttempt(attempt, retries) == attempt >= retries

\* await sleep(delay), before every attempt but the first
ShellSleep ==
  /\ shPc = "loop"
  /\ shAttempt <= shRetries
  /\ shAttempt > 0
  /\ shSlept' = Append(shSlept, Backoff(shRetryDelay, shAttempt))
  /\ shPc' = "exec"
  /\ UNCHANGED <<shRetries, shRetryDelay, shIgnoreErrors, shAttempt, shRuns, shOutput,
                 shCommand, shLabel, shError>>
  /\ UNCHANGED <<serverVars, locVars, stageVars, discVars, handlerVars, procVars>>

\* await execAsync(command), and what follows it: the return of the trimmed
\* output, or the catch
ShellExec(result, stdout) ==
  /\ \/ shPc = "exec"
     \/ shPc = "loop" /\ shAttempt <= shRetries /\ shAttempt = 0
  /\ shRuns' = Append(shRuns, [result |-> result, stdout |-> stdout])
  /\ IF result = "ok"
     THEN /\ shOutput' = trim(stdout)
          /\ shPc' = "returned"
          /\ UNCHANGED <<shAttempt, shError>>
     ELSE IF IsLastAttempt(shAttempt, shRetries)
     THEN IF shIgnoreErrors
          THEN /\ shOutput' = <<>>
               /\ shPc' = "returned"
               /\ UNCHANGED <<shAttempt, shError>>
          ELSE /\ shError' = [thrown |-> TRUE, tag |-> Tag(shLabel, shCommand)]
               /\ shPc' = "threw"
               /\ UNCHANGED <<shAttempt, shOutput>>
     ELSE /\ shAttempt' = shAttempt + 1
          /\ shPc' = "loop"
          /\ UNCHANGED <<shOutput, shError>>
  /\ UNCHANGED <<shRetries, shRetryDelay, shIgnoreErrors, shSlept, shCommand, shLabel>>
  /\ UNCHANGED <<serverVars, locVars, stageVars, discVars, handlerVars, procVars>>

\* shell(command, options) is called
InitShellCall ==
  /\ InitServer
  /\ engine = "sqljs"
  /\ InitLocator
  /\ InitStage
  /\ InitReq
  /\ InitDisc
  /\ InitHandler
  /\ InitProc
  /\ staged = [p \in Paths \ {IosPath} |-> NoData]
  /\ nextTmp = 1
  /\ activeDatabases = <<>>
  /\ hist = HistInit([p \in Paths |-> NoData])
  /\ shRetries \in 0..MaxRetries
  /\ shRetryDelay \in RetryDelays
  /\ shIgnoreErrors \in BOOLEAN
  /\ shCommand \in Commands
  /\ shLabel \in Labels
  /\ shAttempt = 0
  /\ shPc = "loop"
  /\ shSlept = <<>>
  /\ shRuns = <<>>
  /\ shOutput = <<>>
  /\ shError = NoShellError

NextShell ==
  \/ ShellSleep
  \/ \E result \in {"ok", "fail", "timeout"}, stdout \in Stdouts : ShellExec(result, stdout)

SpecShell == InitShellCall /\ [][NextShell]_vars

\* ------------------------------------------------------- the CallTool handler
\* the tools of the server, and a name that is none of them
Tools == {"list_databases", "sync_database", "inspect_schema", "read_table_contents",
          "query_db"}

ToolNames == Tools \cup {"drop_table"}

\* the errors listDatabases, syncDatabase and the query functions reject with
DiscoveryErrors == {ErrNoDevice, ErrNoDatabases}

SyncErrors == {ErrNoDevice, "No SQLite databases found on any platform.",
               "Failed to sync any databases matching 'auto-select'."}

QueryErrors == {"Query timed out", "no such table"}

ErrNoMatch == "No synced databases match the criteria"

ErrAmbiguous == "Multiple databases match the criteria"

ErrMissingTable == "Missing required argument: tableName"

ErrMissingSql == "Missing required argument: sql"

ErrReadOnly ==
  "READ_ONLY mode is enabled. Only SELECT, PRAGMA, and EXPLAIN statements are allowed."

ErrUnknownTool == "Unknown tool"

\* the statements and selections of the requests handled
HandlerStatements ==
  { <<>>,
    <<"S", "E", "L", "E", "C", "T", " ", "1">>,
    <<"U", "P", "D", "A", "T", "E", " ", "t">> }

HandlerSelections ==
  { <<>>,
    <<[localPath |-> IosPath, dbName |-> DbName, platform |-> "ios"]>>,
    <<[localPath |-> IosPath, dbName |-> DbName, platform |-> "ios"],
      [localPath |-> TmpPath(1), dbName |-> DbName, platform |-> "android"]>> }

\* the return of a tool's result; text stands for the rendered result
Result(text) == [threw |-> FALSE, isError |-> FALSE, text |-> text]

\* the error leaves the handler (mutant of the next)
Rethrow(message) == [threw |-> TRUE, isError |-> TRUE, text |-> message]

\* the catch of the handler: text is `Error: ${error.message}`
CatchError(message) == [threw |-> FALSE, isError |-> TRUE, text |-> message]

\* the handler ends: its promise resolves with a response, or rejects
Respond(end) ==
  /\ handlerPc' = IF end.threw THEN "threw" ELSE "returned"
  /\ responses' = IF end.threw THEN responses
                  ELSE Append(responses, [isError |-> end.isError, text |-> end.text])

\* the handler is entered and runs to its first await, or to the throw for a
\* name that is no tool
HandleRequest ==
  /\ handlerPc = "start"
  /\ IF toolName = "list_databases"
     THEN handlerPc' = "listDatabases" /\ UNCHANGED responses
     ELSE IF toolName = "sync_database"
     THEN handlerPc' = "syncDatabase" /\ UNCHANGED responses
     ELSE IF toolName \in {"inspect_schema", "read_table_contents", "query_db"}
     THEN handlerPc' = "ensureDbState" /\ UNCHANGED responses
     ELSE Respond(CatchError(ErrUnknownTool))
  /\ UNCHANGED <<toolName, tableName, callee>>
  /\ UNCHANGED <<serverVars, locVars, stageVars, discVars, shellVars, procVars>>

\* list_databases after await listDatabases
ListDatabasesEnds(result) ==
  /\ handlerPc = "listDatabases"
  /\ callee' = Append(callee, [fn |-> "listDatabases", result |-> result])
  /\ Respond(IF result = "ok" THEN Result("results") ELSE CatchError(result))
  /\ UNCHANGED <<toolName, tableName>>
  /\ UNCHANGED <<serverVars, locVars, stageVars, discVars, shellVars, procVars>>

\* sync_database after await syncDatabase: the results become the selection
SyncDatabaseEnds(result, results) ==
  /\ handlerPc = "syncDatabase"
  /\ callee' = Append(callee, [fn |-> "syncDatabase", result |-> result])
  /\ activeDatabases' = IF result = "ok" THEN results ELSE activeDatabases
  /\ Respond(IF result = "ok" THEN Result("Successfully synced databases")
             ELSE CatchError(result))
  /\ UNCHANGED <<toolName, tableName>>
  /\ UNCHANGED <<engine, now, SQL, cacheVars, callVars, closeVars, deviceData, staged,
                 nextTmp, hist, reqVars>>
  /\ UNCHANGED <<locVars, stageVars, discVars, shellVars, procVars>>

\* the three query tools after await ensureDbState (its lazy sync included), up
\* to the await of the query function: the argument tests and the READ_ONLY test
EnsureDbStateEnds(result, results) ==
  /\ handlerPc = "ensureDbState"
  /\ LET lazy == Len(activeDatabases) = 0
         active == IF lazy /\ result = "ok" THEN results ELSE activeDatabases
         candidates == FilterCandidates(active, cleanPlatform(reqPlatform), reqDbName)
         error == IF lazy /\ result # "ok" THEN result
                  ELSE IF OneCandidate(candidates) THEN "ok"
                  ELSE IF Len(candidates) = 0 THEN ErrNoMatch
                  ELSE ErrAmbiguous
         test == IF toolName = "read_table_contents" /\ tableName = "" THEN ErrMissingTable
                 ELSE IF toolName = "query_db" /\ reqSql = <<>> THEN ErrMissingSql
                 ELSE IF toolName = "query_db" /\ READ_ONLY /\ ~ReadOnlyAllows(reqSql)
                      THEN ErrReadOnly
                 ELSE "ok"
     IN  /\ activeDatabases' = active
         /\ callee' = callee
                      \o (IF lazy THEN <<[fn |-> "syncDatabase", result |-> result]>>
                          ELSE <<>>)
                      \o <<[fn |-> "ensureDbState", result |-> error]>>
         /\ reqDb' = IF error = "ok" THEN candidates[1] ELSE reqDb
         /\ IF error # "ok" THEN Respond(CatchError(error))
            ELSE IF test # "ok" THEN Respond(CatchError(test))
            ELSE /\ handlerPc' = IF toolName = "inspect_schema" THEN "inspectSchema"
                                 ELSE "queryDb"
                 /\ UNCHANGED responses
  /\ UNCHANGED <<toolName, tableName>>
  /\ UNCHANGED <<engine, now, SQL, cacheVars, callVars, closeVars, deviceData, staged,
                 nextTmp, hist, READ_ONLY, reqPlatform, reqDbName, reqSql, reqPc>>
  /\ UNCHANGED <<locVars, stageVars, discVars, shellVars, procVars>>

\* the three query tools after await inspectSchema or await queryDb
QueryEnds(result) ==
  /\ handlerPc \in {"inspectSchema", "queryDb"}
  /\ callee' = Append(callee, [fn |-> handlerPc, result |-> result])
  /\ Respond(IF result = "ok" THEN Result("rows") ELSE CatchError(result))
  /\ UNCHANGED <<toolName, tableName>>
  /\ UNCHANGED <<serverVars, locVars, stageVars, discVars, shellVars, procVars>>

\* a request for some tool arrives
InitHandlerCall ==
  /\ InitServer
  /\ engine = "sqljs"
  /\ InitLocator
  /\ InitStage
  /\ InitDisc
  /\ InitShell
  /\ InitProc
  /\ staged = [p \in Paths \ {IosPath} |-> IF p = TmpPath(1) THEN 0 ELSE NoData]
  /\ nextTmp = 2
  /\ activeDatabases \in HandlerSelections
  /\ hist = HistInit([p \in Paths |-> IF p \in {IosPath, TmpPath(1)} THEN 0 ELSE NoData])
  /\ READ_ONLY \in BOOLEAN
  /\ reqPlatform \in {<<>>, PlatformIos}
  /\ reqDbName \in {"", DbName}
  /\ reqSql \in HandlerStatements
  /\ reqDb = NoDb
  /\ reqPc = "idle"
  /\ toolName \in ToolNames
  /\ tableName \in {"", "t"}
  /\ callee = <<>>
  /\ responses = <<>>
  /\ handlerPc = "start"

NextHandler ==
  \/ HandleRequest
  \/ \E result \in {"ok"} \cup DiscoveryErrors : ListDatabasesEnds(result)
  \/ \E result \in {"ok"} \cup SyncErrors, results \in HandlerSelections \ {<<>>} :
       SyncDatabaseEnds(result, results)
  \/ \E result \in {"ok"} \cup SyncErrors, results \in HandlerSelections \ {<<>>} :
       EnsureDbStateEnds(result, results)
  \/ \E result \in {"ok"} \cup QueryErrors : QueryEnds(result)

SpecHandler == InitHandlerCall /\ [][NextHandler]_vars

\* ---------------------------------------------------------------- the process
MaxFaults == 1

\* process.exit has not been called
Alive == closePc # "exited" /\ procPc \in {"starting", "running"}

\* the guard ends the process (mutant of the next)
CrashOnFault(state) == "crashed"

\* the process-level guards log and do not call process.exit()
KeepAlive(state) == state

\* run(): server.connect(transport) resolves
Startup ==
  /\ Alive
  /\ procPc = "starting"
  /\ procPc' = "running"
  /\ UNCHANGED faultLog
  /\ UNCHANGED <<serverVars, locVars, stageVars, discVars, shellVars, handlerVars>>

\* run() rejects: the startup error is logged and process.exit(1) called
StartupFails ==
  /\ Alive
  /\ procPc = "starting"
  /\ procPc' = "failed"
  /\ UNCHANGED faultLog
  /\ UNCHANGED <<serverVars, locVars, stageVars, discVars, shellVars, handlerVars>>

\* an exception no one catches reaches process.on("uncaughtException")
UncaughtException ==
  /\ Alive
  /\ Len(faultLog) < MaxFaults
  /\ faultLog' = Append(faultLog, "Uncaught exception (process kept alive)")
  /\ procPc' = KeepAlive(procPc)
  /\ UNCHANGED <<serverVars, locVars, stageVars, discVars, shellVars, handlerVars>>

\* a rejection no one handles reaches process.on("unhandledRejection")
UnhandledRejection ==
  /\ Alive
  /\ Len(faultLog) < MaxFaults
  /\ faultLog' = Append(faultLog, "Unhandled promise rejection (process kept alive)")
  /\ procPc' = KeepAlive(procPc)
  /\ UNCHANGED <<serverVars, locVars, stageVars, discVars, shellVars, handlerVars>>

\* the process from its start: the requests and the signal of Next, the startup
\* and the process-level faults
InitProcess ==
  /\ InitServer
  /\ InitLocator
  /\ InitStage
  /\ InitReq
  /\ InitDisc
  /\ InitShell
  /\ InitHandler
  /\ staged = [p \in Paths \ {IosPath} |-> IF p = TmpPath(1) THEN 0 ELSE NoData]
  /\ nextTmp = 2
  /\ activeDatabases =
       <<[localPath |-> IosPath, dbName |-> DbName, platform |-> "ios"],
         [localPath |-> TmpPath(1), dbName |-> DbName, platform |-> "android"]>>
  /\ hist = HistInit([p \in Paths |-> IF p \in {IosPath, TmpPath(1)} THEN 0 ELSE NoData])
  /\ procPc = "starting"
  /\ faultLog = <<>>

NextProcess ==
  \/ Startup
  \/ StartupFails
  \/ UncaughtException
  \/ UnhandledRejection
  \/ \E c \in Calls, pl \in Platforms : ToolCall(c, "query", pl)
  \/ \E c \in Calls : StartSqlJs(c)
  \/ \E c \in Calls : ResumeOpen(c)
  \/ \E c \in Calls, k \in 0..MaxBlock : RunQuery(c, k * Step)
  \/ \E c \in Calls : StartSqlite3(c)
  \/ \E c \in Calls : QueryComplete(c)
  \/ \E h \in Handles : CloseComplete(h)
  \/ Shutdown
  \/ Exit

SpecProcess == InitProcess /\ [][NextProcess]_vars

\* ------------------------------------------------------------------ claims
\* the handles that are open: opened and not yet closed
IsOpen(h) == dbState[h] \in {"open", "closing"}

\* getCachedDb has returned to call c
Returned(c) == pc[c] \in {"gotDb", "running", "abandoned", "done"}

\* the statement of call c ran, or has been running, for longer than the budget
Overran(c) ==
  \/ execTime[c] /= NoTime /\ execTime[c] > QUERY_TIMEOUT_MS
  \/ pc[c] \in {"running", "abandoned"} /\ now - callStart[c] > QUERY_TIMEOUT_MS

\* C1: a query whose statement runs longer than the 30 s budget fails with the
\* timeout error when the budget expires, whether or not the statement later
\* completes: no such query is still pending or has delivered rows.
C1_TimeoutFires ==
  \A c \in Calls : Overran(c) => outcome[c] = "timeout"

\* C2: a query requested after a sync has completed, on a database that sync
\* returned, shows contents at least as recent as those the sync captured, never
\* older ones.
C2_FreshAfterSync ==
  \A c \in Calls :
    (rows[c] /= NoData /\ hist.known[c][callPath[c]] /= NoData)
      => rows[c] >= hist.known[c][callPath[c]]

\* C3: two acquires of the same path with no eviction of that path between the
\* start of the earlier and the return of the later return the identical handle.
C3_SameHandle ==
  \A a, b \in Calls :
    (/\ a < b
     /\ Returned(a) /\ Returned(b)
     /\ callPath[a] = callPath[b]
     /\ hist.eStart[a] = hist.eRet[a]
     /\ hist.eStart[a] = hist.eRet[b]
     /\ hist.eStart[a] = hist.eStart[b])
    => callDb[a] = callDb[b]

\* C4: an acquire that follows more than 60 s of inactivity on its path returns a
\* handle it opened itself, and every handle opened on that path before it has
\* been closed exactly once; and no handle is ever closed twice.
C4_ClosedOnce ==
  /\ \A h \in Handles : closeCalls[h] <= 1
  /\ \A c \in Calls :
       (Returned(c) /\ hist.idle[c]) =>
         /\ callDb[c] >= hist.hStart[c]
         /\ \A h \in Handles :
              (h < hist.hStart[c] /\ dbPath[h] = callPath[c]) => closeCalls[h] = 1

\* C5: there are never two open handles (opened and not yet closed) for one path.
C5_OnePerPath ==
  \A g, h \in Handles :
    (g /= h /\ IsOpen(g) /\ IsOpen(h)) => dbPath[g] /= dbPath[h]

\* C6: the handle getCachedDb returns is open when it is returned (never closed,
\* never mid-close), and it is still open when the sql.js queryDb goes on to use it.
C6_NeverClosedHandle ==
  \A c \in Calls :
    /\ Returned(c) => hist.stateAtReturn[c] = "open"
    /\ pc[c] = "gotDb" => dbState[callDb[c]] = "open"

\* a call got a cached handle after an eviction had closed an earlier handle of
\* the same path, or raced an eviction in progress
C6_Witness ==
  \E c \in Calls :
    /\ Returned(c)
    /\ callDb[c] /= NoHandle
    /\ \E h \in Handles : h /= callDb[c] /\ dbPath[h] = callPath[c]
                          /\ dbState[h] \in {"closing", "closed"}
    /\ \E b \in Calls : b /= c /\ Returned(b) /\ callDb[b] = callDb[c]

\* C7: a step in which a timer (not closeAll) removes a cache entry happens only
\* 60 s or more after the entry was opened or last acquired.
C7_NoEarlyEviction ==
  [][\A i \in 1..Len(connectionCache) :
        (/\ ~CacheHas(connectionCache', connectionCache[i].dbPath)
         /\ closePc' = closePc /\ closeQueue' = closeQueue
         /\ timers' /= timers)
        => now - connectionCache[i].lastUsed >= CACHE_TTL_MS]_vars

\* C8: when closeAll has completed the cache is empty and no handle opened before
\* the call is still open.
C8_DrainedAtShutdown ==
  closePc = "done" =>
    /\ connectionCache = <<>>
    /\ \A h \in Handles : h < hist.hShutdown => dbState[h] /= "open"

\* the selection has been made (or has found nothing to select)
Selected == selPc \in {"selected", "failed"}

\* the glob as the contract reads it: '*' matches any sequence of characters,
\* every other character, '.' included, only itself; the whole name must match
RECURSIVE GlobMatchesFrom(_, _, _, _)
GlobMatchesFrom(g, i, s, j) ==
  IF i > Len(g) THEN j > Len(s)
  ELSE IF g[i] = "*"
       THEN \/ GlobMatchesFrom(g, i + 1, s, j)
            \/ j <= Len(s) /\ GlobMatchesFrom(g, i, s, j + 1)
       ELSE j <= Len(s) /\ g[i] = s[j] /\ GlobMatchesFrom(g, i + 1, s, j + 1)

\* C9: with a glob selector, the names selected are exactly the discovered names
\* that match the glob as a whole, '*' standing for any sequence of characters and
\* every other character, '.' included, for itself.
C9_GlobSelectsExactly ==
  (Selected /\ dbNameGlob /= <<>>) =>
    targetDbNames =
      SelectSeq(locDatabases, LAMBDA name : GlobMatchesFrom(dbNameGlob, 1, name, 1))

\* C10: a selector equal to the bare file name of a discovered database selects
\* that database, on either platform and wherever under the storage root the file
\* is.
C10_BareNameSelects ==
  Selected =>
    LET found == FoundFiles(devPlatform, deviceFiles)
    IN  \A i \in 1..Len(found) :
          basename(found[i]) = dbNameGlob =>
            \E k \in 1..Len(targetDbNames) :
              targetDbNames[k] = DisplayName(devPlatform, found[i])

\* a name with one of the suffixes discovery searches for
Suffixed(name) ==
  EndsWith(name, ExtDb) \/ EndsWith(name, ExtSqlite) \/ EndsWith(name, ExtSqlite3)

\* a name whose last component has no extension
Extensionless(name) == ~Includes(basename(name), ".")

\* C11: with no selector, in a location that lists a suffixed name and an
\* extensionless name, exactly one name is selected and it is the first suffixed
\* name of the location, in whatever order discovery listed the names.
C11_AutoSelectsFirstSuffixed ==
  (/\ Selected
   /\ dbNameGlob = <<>>
   /\ \E i \in 1..Len(locDatabases) : Suffixed(locDatabases[i])
   /\ \E i \in 1..Len(locDatabases) : Extensionless(locDatabases[i]))
  => targetDbNames = <<Head(SelectSeq(locDatabases, Suffixed))>>

\* the sync has returned or thrown
SyncOver == syncPc \in {"returned", "threw"}

\* the staging attempts whose primary file was staged
StagedOk == SelectSeq(stageLog, LAMBDA a : a.main)

\* everything the request selects, in every location
Selection ==
  Targets(Locations(targetPlatform, bundleId, deviceFiles, androidFiles), dbNameGlob)

\* C12: every Android database is staged from the package under which discovery
\* found its name: no staging attempt reads another package's storage root.
C12_StagedFromFoundPackage ==
  \A k \in 1..Len(stageLog) :
    stageLog[k].platform = "android" => stageLog[k].readPkg = stageLog[k].foundIn

\* C13: an Android database whose primary file was staged is in the result of the
\* sync, whatever happened to its -wal and -shm sidecars, and that sync does not
\* fail.
C13_SidecarsOptional ==
  \A k \in 1..Len(StagedOk) :
    StagedOk[k].platform = "android" =>
      /\ k <= Len(synced)
      /\ synced[k].dbName = StagedOk[k].dbName
      /\ synced[k].platform = "android"
      /\ syncPc /= "threw"

C13_Witness ==
  /\ syncPc = "returned"
  /\ \E k \in 1..Len(stageLog) :
       /\ stageLog[k].platform = "android"
       /\ stageLog[k].main /\ ~stageLog[k].wal /\ ~stageLog[k].shm
       /\ \E j \in 1..Len(synced) : synced[j].dbName = stageLog[k].dbName

\* C14: when a sync returns, the localPath of every entry of its result is a
\* file that exists and is not empty.
C14_LocalPathNonEmpty ==
  syncPc = "returned" =>
    \A k \in 1..Len(synced) :
      \E f \in hostFiles : f.path = synced[k].localPath /\ f.size > 0

\* C15: a sync never returns an empty list: without a location it throws before
\* staging anything, and with nothing staged it throws after the staging loop.
C15_NeverEmptyResult ==
  /\ syncPc = "returned" => synced /= <<>>
  /\ syncPc = "staging" =>
       Locations(targetPlatform, bundleId, deviceFiles, androidFiles) /= <<>>
  /\ (SyncOver /\ synced = <<>>) => syncPc = "threw"

C15_Witness ==
  /\ syncPc = "threw"
  /\ stageLog /= <<>>
  /\ synced = <<>>

\* C16: a selected database that cannot be staged does not end the sync: every
\* selected database is attempted, the result holds exactly the ones that were
\* staged, in order, and the sync succeeds when there is at least one.
C16_FailuresSkipped ==
  (SyncOver /\ Selection /= <<>>) =>
    /\ Len(stageLog) = Len(Selection)
    /\ Len(synced) = Len(StagedOk)
    /\ \A k \in 1..Len(synced) :
         /\ synced[k].dbName = StagedOk[k].dbName
         /\ synced[k].platform = StagedOk[k].platform
    /\ StagedOk /= <<>> => syncPc = "returned"

C16_Witness ==
  /\ syncPc = "returned"
  /\ \E i, j \in 1..Len(stageLog) :
       i < j /\ ~stageLog[i].main /\ stageLog[j].main

\* call c is a sync (explicit or lazy) that completes in this step
SyncCompletes(c) ==
  /\ pc[c] \in {"awaitSync", "awaitLazy"}
  /\ pc'[c] \notin {"awaitSync", "awaitLazy"}

\* C17: the active selection changes only in a step in which a sync, explicit or
\* lazy, completes successfully, and every such step leaves it equal to the
\* result of that sync; a failed sync and every other step leave it as it was.
C17_SelectionFollowsSyncs ==
  [][/\ activeDatabases' /= activeDatabases => \E c \in Calls : SyncCompletes(c)
     /\ \A c \in Calls : SyncCompletes(c) => activeDatabases' = syncResult[c]
     /\ \A c \in Calls :
          (pc[c] = "idle" /\ outcome'[c] = "error") => activeDatabases' = activeDatabases]_vars

C17_Witness ==
  \E c, d, f \in Calls :
    /\ outcome[c] = "synced" /\ outcome[d] = "synced" /\ outcome[f] = "error"
    /\ c < f /\ f < d
    /\ syncResult[c] /= syncResult[d]
    /\ activeDatabases = syncResult[d]

\* C19: a query that names a platform is served without an explicit sync of
\* that platform: when no database of the active selection matches, the handler
\* syncs the requested database itself, so the request never fails for want of
\* a match.
C19_LazySyncOnNoMatch ==
  \A c \in Calls :
    (callKind[c] = "query" /\ callPlatform[c] \in Platforms) => outcome[c] /= "nomatch"

\* the entries of the selection that are of the platform the request names (when
\* it names one of the two) and have the name it gives (when it gives one)
Matching ==
  {i \in 1..Len(activeDatabases) :
     /\ cleanPlatform(reqPlatform) /= "none" =>
          activeDatabases[i].platform = cleanPlatform(reqPlatform)
     /\ reqDbName /= "" => activeDatabases[i].dbName = reqDbName}

\* C18: ensureDbState returns a database only when exactly one entry of the
\* selection matches the request's platform and dbName, and then that entry; with
\* several matches it fails as ambiguous, with none as unmatched.
C18_UniqueMatchOnly ==
  (reqPc /= "start" /\ reqPc /= "idle") =>
    /\ reqDb /= NoDb => /\ Cardinality(Matching) = 1
                        /\ \A i \in Matching : reqDb = activeDatabases[i]
    /\ Cardinality(Matching) > 1 => reqPc = "ambiguous"
    /\ Cardinality(Matching) = 0 => reqPc = "nomatch"

C18_Witness ==
  /\ reqPc = "ambiguous"
  /\ Cardinality(Matching) = 2
  /\ reqDbName /= ""
  /\ cleanPlatform(reqPlatform) /= "none"

\* the characters a keyword or a name is made of
WordChars ==
  {UpperCase[k] : k \in 1..Len(UpperCase)} \cup {"_"}
    \cup {"0", "1", "2", "3", "4", "5", "6", "7", "8", "9"}

\* the leading keyword of a statement: the first word of the trimmed,
\* upper-cased text
LeadingKeyword(sql) ==
  LET normalized == toUpperCase(trim(sql))
      ends == {i \in 1..Len(normalized) : normalized[i] \notin WordChars}
      stop == IF ends = {} THEN Len(normalized) + 1
              ELSE CHOOSE i \in ends : \A j \in ends : i <= j
  IN  SubSeq(normalized, 1, stop - 1)

\* C20: in read-only mode a statement reaches the query engine only if its leading
\* keyword is SELECT, PRAGMA or EXPLAIN; any other statement is rejected.
C20_ReadOnlyAllowlist ==
  (READ_ONLY /\ reqPc = "engine") =>
    LeadingKeyword(reqSql) \in {KwSelect, KwPragma, KwExplain}

\* C27: eviction closes the handle before the entry leaves the cache: a handle
\* whose close has begun and not finished is still the handle of a cache entry.
C27_ClosedBeforeRemoved ==
  \A h \in Handles :
    dbState[h] = "closing" =>
      \E i \in 1..Len(connectionCache) : connectionCache[i].db = h

\* listDatabases has ended, by returning or by throwing
DiscoveryOver == dPc \in {"returned", "threw"}

\* C25: when a platform is asked for explicitly and its target is absent (ios: the
\* simulator listing is empty or fails; android: adb does not answer), discovery
\* throws the no-device error of that platform and returns no list.
C25_ExplicitPlatformNeedsDevice ==
  DiscoveryOver =>
    /\ (targetPlatform = "ios" /\ envLog.ios \in {"empty", "fails"}) =>
         dPc = "threw" /\ dError = ErrNoIos
    /\ (targetPlatform = "android" /\ envLog.adb = "fails") =>
         dPc = "threw" /\ dError = ErrNoAndroid

C25_Witness ==
  /\ dPc = "threw"
  /\ targetPlatform = "ios"
  /\ envLog.ios = "empty"
  /\ dError = ErrNoIos

\* the locations of a platform in results
LocationsOf(results, pl) == SelectSeq(results, LAMBDA loc : loc.platform = pl)

\* C26: under auto-scan a missing simulator alone does not make discovery fail, and
\* an unresponsive adb makes it return the iOS locations collected when there is
\* one and throw the no-device-of-any-platform error only when there is none.
C26_AutoScanPartialResults ==
  (DiscoveryOver /\ targetPlatform = "any") =>
    /\ dError # ErrNoIos
    /\ (envLog.ios \in {"empty", "fails"} /\ envLog.adb = "ok" /\ envLog.pm # "fails") =>
         dPc = "returned"
    /\ envLog.adb = "fails" =>
         IF Len(LocationsOf(dResults, "ios")) > 0
         THEN dPc = "returned" /\ dResults = LocationsOf(dResults, "ios")
         ELSE dPc = "threw" /\ dError = ErrNoDevice

C26_Witness ==
  /\ dPc = "returned"
  /\ targetPlatform = "any"
  /\ envLog.adb = "fails"
  /\ Len(dResults) = 1
  /\ dResults[1].platform = "ios"

\* C28: a package's second storage root is probed (and then searched) only when
\* the listing of its first root failed.
C28_FirstListedRootOnly ==
  \A i, j \in 1..Len(probeLog) :
    (i < j /\ probeLog[i].pkg = probeLog[j].pkg) => probeLog[i].lsd = "fails"

\* C29: the databases of the Android location hold no name twice.
C29_AndroidNamesDistinct ==
  \A i \in 1..Len(dResults) :
    dResults[i].platform = "android" => Distinct(dResults[i].databases)

\* C30: once adb has answered, discovery throws only when android was asked for
\* explicitly and no database was found; otherwise it returns what it collected.
C30_OnlyZeroResultsEscalates ==
  (dPc = "threw" /\ envLog.adb = "ok") =>
    targetPlatform = "android" /\ Len(allAndroidDatabases) = 0

\* shell has ended, by returning or by throwing
ShellOver == shPc \in {"returned", "threw"}

\* every execution of the command so far has failed
AllFailed == \A i \in 1..Len(shRuns) : shRuns[i].result # "ok"

\* t is s without its leading and trailing white space
IsTrimOf(t, s) ==
  /\ t = <<>> \/ (t[1] \notin WhiteSpace /\ t[Len(t)] \notin WhiteSpace)
  /\ \E i \in 0..Len(s) :
       /\ i + Len(t) <= Len(s)
       /\ \A k \in 1..Len(t) : s[i + k] = t[k]
       /\ \A k \in 1..Len(s) : (k <= i \/ k > i + Len(t)) => s[k] \in WhiteSpace

\* C23: a command that fails every time is run retries + 1 times, the k-th retry
\* after a sleep of retryDelay * 2^(k-1); a run that succeeds is the last one and
\* its trimmed output is returned.
C23_RetriesWithBackoff ==
  /\ (ShellOver /\ AllFailed) =>
       /\ Len(shRuns) = shRetries + 1
       /\ Len(shSlept) = shRetries
  /\ \A k \in 1..Len(shSlept) :
       /\ k <= shRetries
       /\ shSlept[k] = IF k = 1 THEN shRetryDelay ELSE 2 * shSlept[k - 1]
  /\ \A i \in 1..Len(shRuns) :
       shRuns[i].result = "ok" =>
         /\ i = Len(shRuns)
         /\ shPc = "returned"
         /\ IsTrimOf(shOutput, shRuns[i].stdout)

C23_Witness ==
  /\ ShellOver
  /\ AllFailed
  /\ shRetries = MaxRetries
  /\ Len(shSlept) = MaxRetries

\* C24: when the last attempt fails, shell returns "" if ignoreErrors is set and
\* otherwise throws an error naming the label; a timeout and a non-zero exit alike
\* end the call only when no retry is left.
C24_FinalFailure ==
  (ShellOver /\ AllFailed) =>
    /\ Len(shRuns) > shRetries
    /\ IF shIgnoreErrors
       THEN shPc = "returned" /\ shOutput = <<>> /\ ~shError.thrown
       ELSE /\ shPc = "threw"
            /\ shError.thrown
            /\ shLabel # <<>> => shError.tag = shLabel

C24_Witness ==
  /\ shPc = "threw"
  /\ shRetries > 0
  /\ shLabel # <<>>
  /\ shRuns[Len(shRuns)].result = "timeout"

\* the functions awaited for the request that ended in an error
Failures == {i \in 1..Len(callee) : callee[i].result # "ok"}

\* C21: a tool call gets one response and no more; a failure of discovery, sync,
\* database selection or query execution becomes an isError response carrying
\* its message; the handler never throws and the process keeps running.
C21_FailuresBecomeResponses ==
  /\ handlerPc # "threw"
  /\ Len(responses) <= 1
  /\ handlerPc = "returned" <=> Len(responses) = 1
  /\ \A i \in Failures :
       /\ handlerPc = "returned"
       /\ responses = <<[isError |-> TRUE, text |-> callee[i].result]>>
  /\ (handlerPc = "returned" /\ ~responses[1].isError) => Failures = {}
  /\ procPc = "running" /\ closePc = "idle"

C21_Witness ==
  /\ handlerPc = "returned"
  /\ toolName = "query_db"
  /\ \E i \in Failures : callee[i].fn = "queryDb"
  /\ responses[1].isError

\* the process has ended
Exited == closePc = "exited" \/ procPc \notin {"starting", "running"}

C31_PullRetriedOnce ==
  \A i \in 1..Len(stageLog) :
    stageLog[i].result = "pullFails" => stageLog[i].pulls = 2

\* C37: no pullOne returns with its intermediate file still on the device and the
\* rm not even tried.
C37_IntermediateRemoved ==
  \A i \in 1..Len(stageLog) :
    \A k \in 1..3 : stageLog[i].tmpRemote[k] # "left"

\* C38: a primary file copied and pulled with contents is pushed to the result and
\* its local file kept, also when the rm of the intermediate file fails.
C38_RmFailureKeepsDatabase ==
  \A i \in 1..Len(stageLog) :
    stageLog[i].result = "rmFails" => stageLog[i].main /\ stageLog[i].kept

\* C36: the list syncDatabase returns holds no two entries of the same platform and
\* dbName, and no two of the same localPath.
C36_ResultEntriesDistinct ==
  syncPc = "returned" =>
    \A i, j \in 1..Len(synced) :
      i # j =>
        /\ ~(synced[i].platform = synced[j].platform /\ synced[i].dbName = synced[j].dbName)
        /\ synced[i].localPath # synced[j].localPath

\* the files in staging directories
StagedFiles(files) == {f \in files : f.path.dir # 0}

\* C32: a file in a staging directory is never removed, overwritten or changed by
\* a later staging: every staging writes and deletes in a directory of its own,
\* and nothing removes a staged file afterwards.
C32_StagedFilesKept ==
  [][/\ StagedFiles(hostFiles) \subseteq StagedFiles(hostFiles')
     /\ \A f \in StagedFiles(hostFiles') \ StagedFiles(hostFiles) :
          /\ f.path.dir > stageTmp
          /\ \A g \in StagedFiles(hostFiles) : g.path.dir # f.path.dir]_vars

C32_Witness ==
  /\ syncPc = "returned"
  /\ \E f, g \in StagedFiles(hostFiles) :
       /\ f.path.dir = 1 /\ g.path.dir = 2
       /\ f.path.name = g.path.name

\* the idle-eviction timers that are pending
EvictTimers == {t \in timers : t.kind = "evict"}

\* C33: the pending idle-eviction timers and the cache entries correspond one to
\* one: every entry's own timer is pending, and every pending eviction timer is
\* the timer of the entry cached for its path.
C33_TimersMatchEntries ==
  /\ \A i \in 1..Len(connectionCache) :
       \E t \in EvictTimers :
         t.id = connectionCache[i].timer /\ t.dbPath = connectionCache[i].dbPath
  /\ \A t \in EvictTimers :
       \E i \in 1..Len(connectionCache) :
         connectionCache[i].dbPath = t.dbPath /\ connectionCache[i].timer = t.id

\* call c has a statement executing on handle h
Executing(c, h) == pc[c] \in {"running", "abandoned"} /\ callDb[c] = h

\* C34: the idle-eviction timer never closes a handle on which a dispatched query is
\* still executing, a query that has timed out and runs on included.
C34_NoEvictionUnderQuery ==
  [][\A h \in Handles :
       (/\ closeCalls'[h] > closeCalls[h]
        /\ \E t \in timers \ timers' : t.kind = "evict")
         => \A c \in Calls : ~Executing(c, h)]_vars

\* the requests whose ensureDbState has called syncDatabase and not yet assigned
LazySyncs == {c \in Calls : pc[c] = "awaitLazy"}

\* C35: for one empty selection the lazy sync of ensureDbState calls syncDatabase
\* at most once, however many requests are in flight.
C35_OneLazySync == Cardinality(LazySyncs) <= 1

\* the request was a query_db refused by the READ_ONLY test
RejectedReadOnly ==
  /\ handlerPc = "returned"
  /\ toolName = "query_db"
  /\ responses[1].text = ErrReadOnly

\* C39: a query_db refused in read-only mode has had no side effect: syncDatabase
\* (discovery, force-stop, staging) was not run for it, no query function was
\* called and the cache is as it was.
C39_RejectionHasNoEffect ==
  RejectedReadOnly =>
    /\ \A i \in 1..Len(callee) : callee[i].fn \notin {"syncDatabase", "queryDb"}
    /\ connectionCache = <<>>

====
